---- MODULE Spec2Model ----
(***************************************************************************)
(* A model of scripts/estimate_complexity.py: the timing harness           *)
(* (measure_execution_time, _measure_heuristic) as a state machine, and    *)
(* the curve fitter / model selector (detect_complexity and its helpers)   *)
(* as operators over exact arithmetic; and of the scripts around it:       *)
(* subagent_coordinator.py, subagent_worker.py and scripts/introspect.py.  *)
(*                                                                         *)
(* The specifications share the variables; each keeps the parts it does    *)
(* not use at their idle values:                                           *)
(*   Spec            one call of measure_execution_time after the other on *)
(*                   a candidate function whose every invocation may       *)
(*                   return or raise;                                      *)
(*   DetectSpec      detect_complexity applied to size and timing series   *)
(*                   drawn from bounded sets;                              *)
(*   RunsSpec        repeated calls of detect_complexity;                  *)
(*   SelectSpec      detect_complexity with its locals kept, on short      *)
(*                   series with repeated sizes;                           *)
(*   CliSpec         main() of estimate_complexity.py;                     *)
(*   CoordSpec       SubagentCoordinator, construction and run();          *)
(*   WorkerSpec      the worker processes, interleaved;                    *)
(*   IntrospectSpec  the walk of introspect.py, run after run.             *)
(***************************************************************************)
EXTENDS Integers, Sequences, FiniteSets, TLC

VARIABLES
    \* ---- measure_execution_time / _measure_heuristic ----
    pc,          \* position in the code of the current call
    hint,        \* what inspect.signature(func) yields for the first parameter
    input_size,  \* argument input_size
    iterations,  \* argument iterations
    input_data,  \* local input_data (None until a type hint decides it)
    data,        \* local data of _measure_heuristic
    calls,       \* history: every invocation of func so far in this call
    clock,       \* time.perf_counter(), in ticks
    start_time,  \* local start_time
    i,           \* number of completed iterations of the timed loop
    retries,     \* history: how often the except TypeError handler was entered
    result,      \* what the call returned (or the exception that escaped)
    \* ---- detect_complexity ----
    n_values,    \* argument n_values
    times,       \* argument times, in ticks of 1e-9 s
    dpc,         \* "build" while the arguments are drawn, "done" after the call
    verdict,     \* what detect_complexity returned (by the latest call)
    nruns,       \* history: number of calls of detect_complexity so far
    remembered,  \* history: one earlier call, its arguments and its result
    initial,     \* history: best_fit, best_score, scores as line 249 assigned them
    tie_break,   \* history: tie_fit, tie_score as line 256 assigned them
    \* ---- main ----
    cli_pc,      \* position in main()
    argc,        \* len(sys.argv)
    import_outcome,  \* what lines 273-274 do: succeed or raise
    imports,     \* history: number of calls of importlib.import_module
    cli_n_values,    \* local n_values of main
    cli_times,       \* local times of main
    measured,    \* history: each call of measure_execution_time and its outcome
    detect_calls,    \* history: the arguments of each call of detect_complexity
    complexity,  \* local complexity of main
    stdout,      \* what the process printed, line by line
    exit_status, \* the exit status of the process, NotExited while it runs
    \* ---- SubagentCoordinator ----
    co_pc,       \* position in SubagentCoordinator.__init__ / run
    dryrun,      \* self.dryrun
    num_agents,  \* self.num_agents
    prompt_exists,   \* whether .subagent_prompt.md exists
    lock_dir_exists, \* whether docs/.locks exists
    locks,       \* the *.lock files in docs/.locks
    progress_exists, \* whether .subagent_progress.json exists
    total_files, \* the number of documentation files init_progress finds
    agent_i,     \* the loop variable i of spawn_subagents (0 before the loop)
    processes,   \* local processes of spawn_subagents, with each worker's state
    waited,      \* number of entries of processes the second loop has handled
    commands,    \* history: the commands run with subprocess.run
    fs_ops,      \* history: every creation, write and removal in the file system
    co_exit,     \* the coordinator's exit status, NotExited while it runs
    \* ---- subagent_worker ----
    md_files,    \* what get_md_files() returns, the same in every worker
    lock_files,  \* docs/.locks: per lock name, who wrote the file and for which document
    wk_pc,       \* per worker, its position in main / process_file
    wk_file,     \* per worker, the position of filepath in md_files (0 before the loop)
    wk_lock,     \* per worker, local lock of process_file (NoLock for None)
    wk_holding,  \* history: the locks acquire_lock returned and release_lock did not yet get
    wk_last,     \* history: how the worker's latest call of process_file ended
    \* ---- introspect ----
    items,       \* what build_item_list() returns, the names only
    shown,       \* history: the items printed so far, each with its closing line
    it_arg,      \* the command line of the latest run: "--start", "--next" or "none"
    it_target,   \* NAME of the latest --next
    it_exit      \* exit status of the latest run, NotExited before the first

mvars == <<pc, hint, input_size, iterations, input_data, data, calls, clock,
           start_time, i, retries, result>>
dvars == <<n_values, times, dpc, verdict, nruns, remembered, initial, tie_break>>
cvars == <<cli_pc, argc, import_outcome, imports, cli_n_values, cli_times, measured,
           detect_calls, complexity, stdout, exit_status>>
kvars == <<co_pc, dryrun, num_agents, prompt_exists, lock_dir_exists, locks,
           progress_exists, total_files, agent_i, processes, waited, commands,
           fs_ops, co_exit>>
wvars == <<md_files, lock_files, wk_pc, wk_file, wk_lock, wk_holding, wk_last>>
ivars == <<items, shown, it_arg, it_target, it_exit>>
vars == <<pc, hint, input_size, iterations, input_data, data, calls, clock,
          start_time, i, retries, result, n_values, times, dpc, verdict,
          nruns, remembered, initial, tie_break,
          cli_pc, argc, import_outcome, imports, cli_n_values,
          cli_times, measured, detect_calls, complexity, stdout, exit_status,
          co_pc, dryrun, num_agents, prompt_exists, lock_dir_exists, locks,
          progress_exists, total_files, agent_i, processes, waited, commands,
          fs_ops, co_exit,
          md_files, lock_files, wk_pc, wk_file, wk_lock, wk_holding, wk_last,
          items, shown, it_arg, it_target, it_exit>>

(***************************************************************************)
(* Bounds of the model.                                                    *)
(***************************************************************************)
MaxSize == 2       \* input sizes 0..MaxSize are measured
MaxIter == 2       \* iterations is drawn from 0..MaxIter
MaxCallTicks == 1  \* one invocation of func takes 0..MaxCallTicks ticks

(***************************************************************************)
(* Python values.                                                          *)
(***************************************************************************)
None == [kind |-> "None", int |-> 0, items |-> <<>>]
IntValue(n) == [kind |-> "int", int |-> n, items |-> <<>>]

\* range(n) as a list: 0, 1, .., n-1 (empty when n <= 0)
Range(n) == [k \in 1..n |-> k - 1]

\* list(range(input_size))
ListOfRange(n) == [kind |-> "list", int |-> 0, items |-> Range(n)]

\* What a call can return: nothing yet, None, a float (end - start) / iterations
\* kept as the exact fraction num / den, or an exception that left the call.
Pending == [kind |-> "pending", num |-> 0, den |-> 1, exc |-> ""]
ReturnNone == [kind |-> "None", num |-> 0, den |-> 1, exc |-> ""]
ReturnFloat(num, den) == [kind |-> "float", num |-> num, den |-> den, exc |-> ""]
Raised(exc) == [kind |-> "raised", num |-> 0, den |-> 1, exc |-> exc]

(***************************************************************************)
(* The candidate function.  inspect.signature either fails ("sigfail"),    *)
(* finds no parameter ("noparams"), or finds a first parameter whose       *)
(* annotation is int, list, typing.Sequence, a generic alias with          *)
(* __origin__ list or typing.Sequence, a generic alias with another        *)
(* origin, some other type, or no annotation at all ("empty").             *)
(***************************************************************************)
Hints == {"int", "list", "Sequence", "alias_list", "alias_Sequence",
          "alias_other", "other", "empty", "noparams", "sigfail"}

\* An invocation returns or raises TypeError or another Exception subclass.
Outcomes == {"ok", "TypeError", "Exception"}

\* Lines 36-53: the type-hint check; None when no branch assigns input_data.
MutHintedRange(h, n) ==
    IF h = "int" THEN IntValue(n)
    ELSE IF h \in {"list", "Sequence", "alias_list", "alias_Sequence"}
    THEN [kind |-> "list", int |-> 0, items |-> Range(n + 1)]
    ELSE None

HintedInput(h, n) ==
    IF h = "int" THEN IntValue(n)
    ELSE IF h \in {"list", "Sequence"} THEN ListOfRange(n)
    ELSE IF h \in {"alias_list", "alias_Sequence"} THEN ListOfRange(n)
    ELSE None

\* One invocation func(arg): it is appended to the history with the attempt it
\* belongs to, whether the clock was running, and how it ended; the clock
\* moves on by the time it took.
Invoke(arg, attempt, timed, outcome, ticks) ==
    /\ calls' = Append(calls, [arg |-> arg, attempt |-> attempt,
                               timed |-> timed, outcome |-> outcome])
    /\ clock' = clock + ticks

(***************************************************************************)
(* Exact arithmetic for the floats of the curve fitter.                    *)
(*                                                                         *)
(* A float is kept as the exact fraction num/den of two integers, in       *)
(* lowest terms with den > 0.  Durations are counted in ticks of 1e-9 s,   *)
(* so that the floor 1e-9 of line 229 is one tick.  math.log is a table of *)
(* ln(n) to two decimals.  Squares of residuals and their means exceed the *)
(* 32-bit integers of the model checker and are kept as naturals of        *)
(* several limbs; an RMSE, a square root, is kept by its square.           *)
(***************************************************************************)
Abs(x) == IF x < 0 THEN -x ELSE x

RECURSIVE Gcd(_, _)
Gcd(a, b) == IF b = 0 THEN a ELSE Gcd(b, a % b)

Frac(n, d) ==
    LET g == Gcd(Abs(n), Abs(d))
    IN  IF d < 0 THEN [num |-> (-n) \div g, den |-> (-d) \div g]
        ELSE [num |-> n \div g, den |-> d \div g]

Float(n) == [num |-> n, den |-> 1]

FAdd(x, y) ==
    LET g == Gcd(x.den, y.den)
    IN  Frac(x.num * (y.den \div g) + y.num * (x.den \div g),
             (x.den \div g) * y.den)

FNeg(x) == [num |-> -x.num, den |-> x.den]
FSub(x, y) == FAdd(x, FNeg(y))

FMul(x, y) ==
    IF x.num = 0 \/ y.num = 0 THEN Float(0)
    ELSE LET g1 == Gcd(Abs(x.num), y.den)
             g2 == Gcd(Abs(y.num), x.den)
         IN  [num |-> (x.num \div g1) * (y.num \div g2),
              den |-> (x.den \div g2) * (y.den \div g1)]

\* x / y for y # 0
FDiv(x, y) ==
    IF y.num > 0 THEN FMul(x, [num |-> y.den, den |-> y.num])
    ELSE FMul(x, [num |-> -y.den, den |-> -y.num])

FAbs(x) == [num |-> Abs(x.num), den |-> x.den]

\* sum(...) and statistics.fmean(...) of a list of floats
RECURSIVE FSum(_)
FSum(s) == IF s = <<>> THEN Float(0) ELSE FAdd(Head(s), FSum(Tail(s)))

FMean(s) == FDiv(FSum(s), Float(Len(s)))

\* zip(a, b) stops at the shorter list
ZipLen(a, b) == IF Len(a) < Len(b) THEN Len(a) ELSE Len(b)

(***************************************************************************)
(* Naturals of several limbs, least significant limb first, without        *)
(* leading zero limbs (zero is the empty sequence).                        *)
(***************************************************************************)
Base == 10000

RECURSIVE BigOf(_)
BigOf(n) == IF n = 0 THEN <<>> ELSE <<n % Base>> \o BigOf(n \div Base)

RECURSIVE BigAddCarry(_, _, _)
BigAddCarry(a, b, c) ==
    IF a = <<>> /\ b = <<>> THEN (IF c = 0 THEN <<>> ELSE <<c>>)
    ELSE LET x == (IF a = <<>> THEN 0 ELSE Head(a))
                  + (IF b = <<>> THEN 0 ELSE Head(b)) + c
         IN  <<x % Base>> \o BigAddCarry(IF a = <<>> THEN <<>> ELSE Tail(a),
                                         IF b = <<>> THEN <<>> ELSE Tail(b),
                                         x \div Base)

BigAdd(a, b) == BigAddCarry(a, b, 0)

\* a * d + c for one limb d > 0 and a carry c
RECURSIVE BigMulLimb(_, _, _)
BigMulLimb(a, d, c) ==
    IF a = <<>> THEN (IF c = 0 THEN <<>> ELSE <<c>>)
    ELSE LET x == Head(a) * d + c
         IN  <<x % Base>> \o BigMulLimb(Tail(a), d, x \div Base)

RECURSIVE BigMul(_, _)
BigMul(a, b) ==
    IF a = <<>> \/ b = <<>> THEN <<>>
    ELSE LET low == IF Head(b) = 0 THEN <<>> ELSE BigMulLimb(a, Head(b), 0)
             high == BigMul(a, Tail(b))
         IN  BigAdd(low, IF high = <<>> THEN <<>> ELSE <<0>> \o high)

\* a < b, comparing from the most significant limb
RECURSIVE BigLessFrom(_, _, _)
BigLessFrom(a, b, k) ==
    IF k = 0 THEN FALSE
    ELSE IF a[k] # b[k] THEN a[k] < b[k]
    ELSE BigLessFrom(a, b, k - 1)

BigLess(a, b) ==
    IF Len(a) # Len(b) THEN Len(a) < Len(b) ELSE BigLessFrom(a, b, Len(a))

BigLeq(a, b) == ~BigLess(b, a)

\* x < y and x <= y for fractions x, y >= 0, by cross-multiplication
FLess(x, y) ==
    BigLess(BigMul(BigOf(x.num), BigOf(y.den)), BigMul(BigOf(y.num), BigOf(x.den)))
FLeq(x, y) == ~FLess(y, x)

\* Powers of ten as limbs: 10^6, 10^12 and 10^18.
TenTo6 == <<0, 100>>
TenTo12 == <<0, 0, 0, 1>>
TenTo18 == <<0, 0, 0, 0, 100>>

\* abs(x) < 1e-12 (line 123), x <= 1e-12 (line 130), abs(x) < 1e-6 (line 167)
AbsBelowTenToMinus(x, power) == BigLess(BigMul(BigOf(Abs(x.num)), power), BigOf(x.den))
AtMostTenToMinus12(x) ==
    x.num <= 0 \/ BigLeq(BigMul(BigOf(x.num), TenTo12), BigOf(x.den))

(***************************************************************************)
(* math.log: ln(n) for an integer n >= 1, to two decimals for n <= 64.     *)
(***************************************************************************)
LnScale == 100
LnTable == <<0, 69, 110, 139, 161, 179, 195, 208, 220, 230, 240, 248,
             256, 264, 271, 277, 283, 289, 294, 300, 304, 309, 314, 318,
             322, 326, 330, 333, 337, 340, 343, 347, 350, 353, 356, 358,
             361, 364, 366, 369, 371, 374, 376, 378, 381, 383, 385, 387,
             389, 391, 393, 395, 397, 399, 401, 403, 404, 406, 408, 409,
             411, 413, 414, 416>>
\* Beyond the table, ln(n) = ln(n / 2) + ln(2) with the quotient truncated.
RECURSIVE LnHundredths(_)
LnHundredths(n) ==
    IF n <= Len(LnTable) THEN LnTable[n]
    ELSE LnHundredths(n \div 2) + LnTable[2]
Ln(n) == Frac(LnHundredths(n), LnScale)

\* math.log(t) for a duration of t >= 1 ticks, i.e. of t * 1e-9 seconds:
\* ln(t) - ln(10^9)
LnTicksPerSecond == 2072
LnSeconds(t) == FSub(Ln(t), Frac(LnTicksPerSecond, LnScale))

(***************************************************************************)
(* Scores.  An RMSE sqrt(num/den) is kept as the fraction under the root,  *)
(* num and den naturals of several limbs.  best_score starts at            *)
(* float("inf"); the second component of (None, None) is None.             *)
(***************************************************************************)
NoneScore == [kind |-> "None", num |-> <<>>, den |-> <<1>>]
Infinity == [kind |-> "inf", num |-> <<>>, den |-> <<1>>]
Sqrt(num, den) == [kind |-> "sqrt", num |-> num, den |-> den]

RECURSIVE LcmOfDens(_)
LcmOfDens(s) ==
    IF s = <<>> THEN 1
    ELSE LET l == LcmOfDens(Tail(s))
         IN  (l \div Gcd(l, Head(s).den)) * Head(s).den

RECURSIVE BigSumOfSquares(_, _)
BigSumOfSquares(s, l) ==
    IF s = <<>> THEN <<>>
    ELSE LET r == BigOf(Abs(Head(s).num) * (l \div Head(s).den))
         IN  BigAdd(BigMul(r, r), BigSumOfSquares(Tail(s), l))

\* Line 188: math.sqrt(statistics.fmean(r * r for r in residuals)), for a
\* non-empty list: the squares over the common denominator l * l.
Rmse(residuals) ==
    LET l == LcmOfDens(residuals)
    IN  Sqrt(BigSumOfSquares(residuals, l),
             BigMul(BigOf(Len(residuals)), BigMul(BigOf(l), BigOf(l))))

IsZero(score) == score.num = <<>>

\* sqrt(p) < (cn / cd) * sqrt(q), for integers cn, cd > 0
SqrtLessScaled(p, cn, cd, q) ==
    BigLess(BigMul(BigMul(p.num, q.den), BigOf(cd * cd)),
            BigMul(BigMul(q.num, p.den), BigOf(cn * cn)))

\* relative_eps = 0.05 (lines 142 and 193), as RelEpsNum / RelEpsDen
RelEpsNum == 1
RelEpsDen == 20

(***************************************************************************)
(* _compute_residuals(normalized_times, theoretical)                       *)
(***************************************************************************)
NotApplicable == [applicable |-> FALSE, residuals |-> <<>>]
Residuals(r) == [applicable |-> TRUE, residuals |-> r]

\* (lines 110-133 without the slope check of lines 130-131)
MutComputeResidualsAnySlope(normalized_times, theoretical) ==
    IF Cardinality({theoretical[k] : k \in DOMAIN theoretical}) = 1
    THEN LET mean_time == FMean(normalized_times)
         IN  Residuals([k \in DOMAIN normalized_times |->
                            FSub(normalized_times[k], mean_time)])
    ELSE
    LET n == Float(Len(theoretical))
        sum_x == FSum(theoretical)
        sum_y == FSum(normalized_times)
        sum_xx == FSum([k \in DOMAIN theoretical |->
                            FMul(theoretical[k], theoretical[k])])
        sum_xy == FSum([k \in 1..ZipLen(theoretical, normalized_times) |->
                            FMul(theoretical[k], normalized_times[k])])
        denom == FSub(FMul(n, sum_xx), FMul(sum_x, sum_x))
        a == FDiv(FSub(FMul(n, sum_xy), FMul(sum_x, sum_y)), denom)
        b == FDiv(FSub(sum_y, FMul(a, sum_x)), n)
    IN  IF AbsBelowTenToMinus(denom, TenTo12) THEN NotApplicable
        ELSE Residuals([k \in 1..ZipLen(normalized_times, theoretical) |->
                 FSub(normalized_times[k], FAdd(FMul(a, theoretical[k]), b))])

_compute_residuals(normalized_times, theoretical) ==
    IF Cardinality({theoretical[k] : k \in DOMAIN theoretical}) = 1
    THEN \* lines 110-113: constant model, the fit is the mean
         LET mean_time == FMean(normalized_times)
         IN  Residuals([k \in DOMAIN normalized_times |->
                            FSub(normalized_times[k], mean_time)])
    ELSE \* lines 116-133: t = a * f(n) + b by least squares
    LET n == Float(Len(theoretical))
        sum_x == FSum(theoretical)
        sum_y == FSum(normalized_times)
        sum_xx == FSum([k \in DOMAIN theoretical |->
                            FMul(theoretical[k], theoretical[k])])
        sum_xy == FSum([k \in 1..ZipLen(theoretical, normalized_times) |->
                            FMul(theoretical[k], normalized_times[k])])
        denom == FSub(FMul(n, sum_xx), FMul(sum_x, sum_x))
        a == FDiv(FSub(FMul(n, sum_xy), FMul(sum_x, sum_y)), denom)
        b == FDiv(FSub(sum_y, FMul(a, sum_x)), n)
    IN  IF AbsBelowTenToMinus(denom, TenTo12) THEN NotApplicable
        ELSE IF AtMostTenToMinus12(a) THEN NotApplicable
        ELSE Residuals([k \in 1..ZipLen(normalized_times, theoretical) |->
                 FSub(normalized_times[k], FAdd(FMul(a, theoretical[k]), b))])

(***************************************************************************)
(* _score_models(normalized_times, models, model_priority)                 *)
(***************************************************************************)
ModelNames == <<"O(1) (Constant)", "O(log n) (Logarithmic)", "O(n) (Linear)",
                "O(n log n) (Linearithmic)", "O(n^2) (Quadratic)">>

\* Lines 241-247.
model_priority ==
    [name \in {ModelNames[k] : k \in 1..5} |->
        CHOOSE k \in 0..4 : ModelNames[k + 1] = name]

\* Lines 178-180: best_fit = None, best_score = float("inf"), scores = {}.
\* A name without a score maps to None, as scores.get(name) answers.
NoScores == [name \in {ModelNames[k] : k \in 1..5} |-> NoneScore]
ScoreStart == [best_fit |-> "None", best_score |-> Infinity, scores |-> NoScores]

\* (line 196 without the threshold: rmse < best_score)
MutStrictlyBetterNoThreshold(rmse, best_score) ==
    IF best_score.kind = "inf" THEN FALSE
    ELSE SqrtLessScaled(rmse, 1, 1, best_score)

\* Lines 193-196: rmse < best_score - threshold, with
\* threshold = relative_eps * best_score if best_score > 0 else 1e-9.
\* For best_score = inf the threshold is inf and inf - inf is nan, which
\* compares False; for best_score = 0 the bound -1e-9 is negative.
StrictlyBetter(rmse, best_score) ==
    IF best_score.kind = "inf" THEN FALSE
    ELSE IF IsZero(best_score) THEN FALSE
    ELSE SqrtLessScaled(rmse, RelEpsDen - RelEpsNum, RelEpsDen, best_score)

\* Line 201: abs(rmse - best_score) <= threshold.  For best_score = inf this
\* is inf <= inf; for best_score = 0 it is rmse <= 1e-9.
NearTie(rmse, best_score) ==
    IF best_score.kind = "inf" THEN TRUE
    ELSE IF IsZero(best_score) THEN BigLeq(BigMul(rmse.num, TenTo18), rmse.den)
    ELSE /\ ~SqrtLessScaled(rmse, RelEpsDen - RelEpsNum, RelEpsDen, best_score)
         /\ ~SqrtLessScaled(best_score, RelEpsDen, RelEpsDen + RelEpsNum, rmse)

\* Lines 188-205: the loop body for a model with residuals.
MutScoreStepKeepsScore(st, name, rmse) ==
    LET scored == [st EXCEPT !.scores[name] = rmse]
    IN  IF StrictlyBetter(rmse, st.best_score)
        THEN [scored EXCEPT !.best_fit = name]
        ELSE IF NearTie(rmse, st.best_score)
                /\ model_priority[name] <
                      (IF st.best_fit # "None" THEN model_priority[st.best_fit] ELSE 999)
        THEN [scored EXCEPT !.best_fit = name, !.best_score = rmse]
        ELSE scored

\* (the loop body adopting a model only when it is also the simpler one)
MutScoreStepSimplerOnly(st, name, rmse) ==
    LET scored == [st EXCEPT !.scores[name] = rmse]
    IN  IF (StrictlyBetter(rmse, st.best_score) \/ NearTie(rmse, st.best_score))
           /\ model_priority[name] <
                 (IF st.best_fit # "None" THEN model_priority[st.best_fit] ELSE 999)
        THEN [scored EXCEPT !.best_fit = name, !.best_score = rmse]
        ELSE scored

ScoreStep(st, name, rmse) ==
    LET scored == [st EXCEPT !.scores[name] = rmse]
    IN  IF StrictlyBetter(rmse, st.best_score)
        THEN [scored EXCEPT !.best_fit = name, !.best_score = rmse]
        ELSE IF NearTie(rmse, st.best_score)
                /\ model_priority[name] <
                      (IF st.best_fit # "None" THEN model_priority[st.best_fit] ELSE 999)
        THEN [scored EXCEPT !.best_fit = name, !.best_score = rmse]
        ELSE scored

\* The state of the loop of lines 182-207 after the first k models.  A model
\* without residuals is skipped (line 186), and so is one whose residual list
\* is empty: statistics.fmean raises StatisticsError (line 206).
RECURSIVE ScoreLoop(_, _, _)
ScoreLoop(normalized_times, models, k) ==
    IF k = 0 THEN ScoreStart
    ELSE LET st == ScoreLoop(normalized_times, models, k - 1)
             fit == _compute_residuals(normalized_times, models[k].theoretical)
         IN  IF ~fit.applicable \/ fit.residuals = <<>> THEN st
             ELSE ScoreStep(st, models[k].name, Rmse(fit.residuals))

_score_models(normalized_times, models) ==
    ScoreLoop(normalized_times, models, Len(models))

(***************************************************************************)
(* _tie_break_linear_vs_nlogn(n_values, times, scores)                     *)
(***************************************************************************)
NoTieBreak == [fit |-> "None", score |-> NoneScore]

\* tie_fit, tie_score while line 256 has not run: the names are unbound.
NotCalled == [fit |-> "unbound", score |-> NoneScore]

\* The indices of the pairs of line 148, in order.
\* (line 148 with n > 0 in place of n > 1)
RECURSIVE MutUsablePairsFromOne(_, _, _)
MutUsablePairsFromOne(nv, ts, k) ==
    IF k = 0 THEN <<>>
    ELSE IF nv[k] > 0 /\ ts[k] > 0
    THEN Append(MutUsablePairsFromOne(nv, ts, k - 1), k)
    ELSE MutUsablePairsFromOne(nv, ts, k - 1)

RECURSIVE UsablePairs(_, _, _)
UsablePairs(nv, ts, k) ==
    IF k = 0 THEN <<>>
    ELSE IF nv[k] > 1 /\ ts[k] > 0
    THEN Append(UsablePairs(nv, ts, k - 1), k)
    ELSE UsablePairs(nv, ts, k - 1)

\* (lines 136-174 without the threshold test of lines 142-145)
MutTieBreakAnyDistance(nv, ts, scores) ==
    LET linear_rmse == scores["O(n) (Linear)"]
        nlogn_rmse == scores["O(n log n) (Linearithmic)"]
        pairs == UsablePairs(nv, ts, ZipLen(nv, ts))
        log_n == [k \in DOMAIN pairs |-> Ln(nv[pairs[k]])]
        log_t == [k \in DOMAIN pairs |-> LnSeconds(ts[pairs[k]])]
        mean_ln == FMean(log_n)
        mean_lt == FMean(log_t)
        var_ln == FSum([k \in DOMAIN pairs |->
                     FMul(FSub(log_n[k], mean_ln), FSub(log_n[k], mean_ln))])
        cov == FSum([k \in DOMAIN pairs |->
                     FMul(FSub(log_n[k], mean_ln), FSub(log_t[k], mean_lt))])
        slope == FDiv(cov, var_ln)
        \* lines 163-164: n_mid = math.exp(mean_ln); ln_mid = math.log(n_mid)
        ln_mid == mean_ln
        target_nlogn == FAdd(Float(1), FDiv(Float(1), ln_mid))
    IN  IF linear_rmse.kind = "None" \/ nlogn_rmse.kind = "None" THEN NoTieBreak
        ELSE IF Len(pairs) < 2 THEN NoTieBreak
        ELSE IF var_ln.num = 0 THEN NoTieBreak
        ELSE IF AbsBelowTenToMinus(ln_mid, TenTo6) THEN NoTieBreak
        ELSE IF FLeq(FAbs(FSub(slope, Float(1))), FAbs(FSub(slope, target_nlogn)))
        THEN [fit |-> "O(n) (Linear)", score |-> linear_rmse]
        ELSE [fit |-> "O(n log n) (Linearithmic)", score |-> nlogn_rmse]

_tie_break_linear_vs_nlogn(nv, ts, scores) ==
    LET linear_rmse == scores["O(n) (Linear)"]
        nlogn_rmse == scores["O(n log n) (Linearithmic)"]
        \* line 144: abs(linear - nlogn) > relative_eps * min(linear, nlogn)
        apart ==
            \/ SqrtLessScaled(linear_rmse, RelEpsDen, RelEpsDen + RelEpsNum, nlogn_rmse)
            \/ SqrtLessScaled(nlogn_rmse, RelEpsDen, RelEpsDen + RelEpsNum, linear_rmse)
        pairs == UsablePairs(nv, ts, ZipLen(nv, ts))
        log_n == [k \in DOMAIN pairs |-> Ln(nv[pairs[k]])]
        log_t == [k \in DOMAIN pairs |-> LnSeconds(ts[pairs[k]])]
        mean_ln == FMean(log_n)
        mean_lt == FMean(log_t)
        var_ln == FSum([k \in DOMAIN pairs |->
                     FMul(FSub(log_n[k], mean_ln), FSub(log_n[k], mean_ln))])
        cov == FSum([k \in DOMAIN pairs |->
                     FMul(FSub(log_n[k], mean_ln), FSub(log_t[k], mean_lt))])
        slope == FDiv(cov, var_ln)
        \* lines 163-164: n_mid = math.exp(mean_ln); ln_mid = math.log(n_mid)
        ln_mid == mean_ln
        target_nlogn == FAdd(Float(1), FDiv(Float(1), ln_mid))
    IN  IF linear_rmse.kind = "None" \/ nlogn_rmse.kind = "None" THEN NoTieBreak
        ELSE IF apart THEN NoTieBreak
        ELSE IF Len(pairs) < 2 THEN NoTieBreak
        ELSE IF var_ln.num = 0 THEN NoTieBreak
        ELSE IF AbsBelowTenToMinus(ln_mid, TenTo6) THEN NoTieBreak
        ELSE IF FLeq(FAbs(FSub(slope, Float(1))), FAbs(FSub(slope, target_nlogn)))
        THEN [fit |-> "O(n) (Linear)", score |-> linear_rmse]
        ELSE [fit |-> "O(n log n) (Linearithmic)", score |-> nlogn_rmse]

(***************************************************************************)
(* detect_complexity(n_values, times)                                      *)
(***************************************************************************)
MinSamples == 3   \* line 223
EpsTime == 1      \* line 229: 1e-9 s, one tick

SeqMin(s) == CHOOSE x \in {s[k] : k \in DOMAIN s} : \A k \in DOMAIN s : x <= s[k]

\* Lines 232-238.
Models(nv) ==
    << [name |-> ModelNames[1], theoretical |-> [k \in DOMAIN nv |-> Float(1)]],
       [name |-> ModelNames[2], theoretical |->
            [k \in DOMAIN nv |-> IF nv[k] > 0 THEN Ln(nv[k]) ELSE Float(0)]],
       [name |-> ModelNames[3], theoretical |-> [k \in DOMAIN nv |-> Float(nv[k])]],
       [name |-> ModelNames[4], theoretical |->
            [k \in DOMAIN nv |->
                IF nv[k] > 0 THEN FMul(Float(nv[k]), Ln(nv[k])) ELSE Float(0)]],
       [name |-> ModelNames[5], theoretical |->
            [k \in DOMAIN nv |-> Float(nv[k] * nv[k])]] >>

NoVerdict == [fit |-> "pending", score |-> NoneScore]
NoRun == [n_values |-> <<>>, times |-> <<>>, verdict |-> NoVerdict, run |-> 0,
          others |-> FALSE]
NoneNone == [fit |-> "None", score |-> NoneScore]

\* (lines 227-229 without the floor of lines 228-229)
MutMinTimeNoFloor(ts) == SeqMin(ts)

\* Lines 227-229: the smallest duration, or 1e-9 s when that is not positive.
MinTime(ts) == IF SeqMin(ts) <= 0 THEN EpsTime ELSE SeqMin(ts)

\* Line 230: the durations divided by min_time.
Normalize(ts) == [k \in DOMAIN ts |-> Frac(ts[k], MinTime(ts))]

\* An exception that leaves detect_complexity.
Raises(exc) == [fit |-> exc, score |-> NoneScore]

\* (lines 255-259 without the `if tie_fit is not None` of line 257)
MutFitAndSelectTakesNone(nv, ts) ==
    LET st == _score_models(Normalize(ts), Models(nv))
        tie == _tie_break_linear_vs_nlogn(nv, ts, st.scores)
    IN  IF st.best_fit \in {"O(n) (Linear)", "O(n log n) (Linearithmic)"}
        THEN [fit |-> tie.fit, score |-> tie.score]
        ELSE [fit |-> st.best_fit, score |-> st.best_score]

\* (lines 255-259 with best_score left as it was in place of line 259)
MutFitAndSelectKeepsInitialScore(nv, ts) ==
    LET st == _score_models(Normalize(ts), Models(nv))
        tie == _tie_break_linear_vs_nlogn(nv, ts, st.scores)
    IN  IF st.best_fit \in {"O(n) (Linear)", "O(n log n) (Linearithmic)"}
           /\ tie.fit # "None"
        THEN [fit |-> tie.fit, score |-> st.best_score]
        ELSE [fit |-> st.best_fit, score |-> st.best_score]

\* Lines 226-261, reached with at least MinSamples durations.
\* The division of line 230 raises ZeroDivisionError for min_time = 0.
FitAndSelect(nv, ts) ==
    IF MinTime(ts) = 0 THEN Raises("ZeroDivisionError")
    ELSE
    LET st == _score_models(Normalize(ts), Models(nv))
        tie == _tie_break_linear_vs_nlogn(nv, ts, st.scores)
    IN  IF st.best_fit \in {"O(n) (Linear)", "O(n log n) (Linearithmic)"}
           /\ tie.fit # "None"
        THEN [fit |-> tie.fit, score |-> tie.score]
        ELSE [fit |-> st.best_fit, score |-> st.best_score]

\* min(times) of an empty list raises ValueError.
MutDetectChecksSizes(nv, ts) ==
    IF Len(nv) < MinSamples THEN NoneNone
    ELSE IF ts = <<>> THEN Raises("ValueError")
    ELSE FitAndSelect(nv, ts)

detect_complexity(nv, ts) ==
    IF Len(ts) < MinSamples THEN NoneNone
    ELSE FitAndSelect(nv, ts)

(***************************************************************************)
(* measure_execution_time(func, input_size, iterations)                    *)
(***************************************************************************)
MInit ==
    /\ pc = "idle"
    /\ hint = "empty"
    /\ input_size = 0
    /\ iterations = 0
    /\ input_data = None
    /\ data = None
    /\ calls = <<>>
    /\ clock = 0
    /\ start_time = 0
    /\ i = 0
    /\ retries = 0
    /\ result = Pending

\* The caller invokes measure_execution_time: line 33, input_data = None.
Call ==
    /\ pc = "idle"
    /\ \E h \in Hints, n \in 0..MaxSize, it \in 0..MaxIter :
          /\ hint' = h
          /\ input_size' = n
          /\ iterations' = it
    /\ input_data' = None
    /\ data' = None
    /\ calls' = <<>>
    /\ clock' = 0
    /\ start_time' = 0
    /\ i' = 0
    /\ retries' = 0
    /\ result' = Pending
    /\ pc' = "hints"
    /\ UNCHANGED <<dvars, cvars, kvars, wvars, ivars>>

\* Lines 36-53: inspect the signature; a failing inspection and a function
\* without parameters leave input_data at None.
CheckTypeHints ==
    /\ pc = "hints"
    /\ input_data' = HintedInput(hint, input_size)
    /\ pc' = "fallback"
    /\ UNCHANGED <<hint, input_size, iterations, data, calls, clock,
                   start_time, i, retries, result>>
    /\ UNCHANGED <<dvars, cvars, kvars, wvars, ivars>>

\* Lines 56-57: `if input_data is None: return _measure_heuristic(...)`.
MutFallbackFalsy ==
    /\ pc = "fallback"
    /\ pc' = IF input_data = None \/ input_data = IntValue(0)
                \/ input_data = ListOfRange(0)
             THEN "h_int_warmup" ELSE "warmup"
    /\ UNCHANGED <<hint, input_size, iterations, input_data, data, calls,
                   clock, start_time, i, retries, result>>
    /\ UNCHANGED <<dvars, cvars, kvars, wvars, ivars>>

Fallback ==
    /\ pc = "fallback"
    /\ pc' = IF input_data = None THEN "h_int_warmup" ELSE "warmup"
    /\ UNCHANGED <<hint, input_size, iterations, input_data, data, calls,
                   clock, start_time, i, retries, result>>
    /\ UNCHANGED <<dvars, cvars, kvars, wvars, ivars>>

\* Lines 68-72: `except Exception: return None`.
ReturnNoneOnException ==
    /\ result' = ReturnNone
    /\ pc' = "done"

\* Line 62: the warm-up call func(input_data), before the clock is read.
WarmUp ==
    /\ pc = "warmup"
    /\ \E o \in Outcomes, d \in 0..MaxCallTicks :
          /\ Invoke(input_data, "declared", FALSE, o, d)
          /\ IF o = "ok"
             THEN pc' = "start" /\ UNCHANGED result
             ELSE ReturnNoneOnException
    /\ UNCHANGED <<hint, input_size, iterations, input_data, data,
                   start_time, i, retries>>
    /\ UNCHANGED <<dvars, cvars, kvars, wvars, ivars>>

\* Line 63: start_time = time.perf_counter().
StartClock ==
    /\ pc = "start"
    /\ start_time' = clock
    /\ i' = 0
    /\ pc' = "loop"
    /\ UNCHANGED <<hint, input_size, iterations, input_data, data, calls,
                   clock, retries, result>>
    /\ UNCHANGED <<dvars, cvars, kvars, wvars, ivars>>

\* Lines 64-65: one iteration of `for _ in range(iterations): func(input_data)`.
TimedCall ==
    /\ pc = "loop"
    /\ i < iterations
    /\ \E o \in Outcomes, d \in 0..MaxCallTicks :
          /\ Invoke(input_data, "declared", TRUE, o, d)
          /\ IF o = "ok"
             THEN /\ i' = i + 1
                  /\ UNCHANGED <<pc, result>>
             ELSE /\ ReturnNoneOnException
                  /\ UNCHANGED i
    /\ UNCHANGED <<hint, input_size, iterations, input_data, data,
                   start_time, retries>>
    /\ UNCHANGED <<dvars, cvars, kvars, wvars, ivars>>

\* Lines 66-67: end_time = time.perf_counter() and the average; dividing by
\* iterations = 0 raises ZeroDivisionError, which line 68 catches.
MutStopClockEarly ==
    /\ pc = "loop"
    /\ i + 1 >= iterations
    /\ IF iterations = 0
       THEN ReturnNoneOnException
       ELSE /\ result' = ReturnFloat(clock - start_time, iterations)
            /\ pc' = "done"
    /\ UNCHANGED <<hint, input_size, iterations, input_data, data, calls,
                   clock, start_time, i, retries>>
    /\ UNCHANGED <<dvars, cvars, kvars, wvars, ivars>>

StopClock ==
    /\ pc = "loop"
    /\ i >= iterations
    /\ IF iterations = 0
       THEN ReturnNoneOnException
       ELSE /\ result' = ReturnFloat(clock - start_time, iterations)
            /\ pc' = "done"
    /\ UNCHANGED <<hint, input_size, iterations, input_data, data, calls,
                   clock, start_time, i, retries>>
    /\ UNCHANGED <<dvars, cvars, kvars, wvars, ivars>>

(***************************************************************************)
(* _measure_heuristic(func, input_size, iterations)                        *)
(***************************************************************************)
\* How the try statement of lines 77-97 treats an exception raised in its
\* body (the integer attempt): TypeError enters the handler of line 86, whose
\* first statement builds data = list(range(input_size)); any other Exception
\* reaches line 96 and returns None.
MutIntAttemptAlwaysRetries(exc) ==
    /\ data' = ListOfRange(input_size)
    /\ retries' = retries + 1
    /\ pc' = "h_list_warmup"
    /\ UNCHANGED result

IntAttemptRaised(exc) ==
    IF exc = "TypeError"
    THEN /\ data' = ListOfRange(input_size)
         /\ retries' = retries + 1
         /\ pc' = "h_list_warmup"
         /\ UNCHANGED result
    ELSE /\ ReturnNoneOnException
         /\ UNCHANGED <<data, retries>>

\* An exception raised inside the handler of line 86 (the list attempt) is
\* not caught by the sibling clause of line 96: it leaves _measure_heuristic
\* and, line 57 being outside any try, measure_execution_time.
ListAttemptRaised(exc) ==
    /\ result' = Raised(exc)
    /\ pc' = "done"

\* Line 79: warm-up with the raw integer.
HIntWarmUp ==
    /\ pc = "h_int_warmup"
    /\ \E o \in Outcomes, d \in 0..MaxCallTicks :
          /\ Invoke(IntValue(input_size), "int", FALSE, o, d)
          /\ IF o = "ok"
             THEN pc' = "h_int_start" /\ UNCHANGED <<data, retries, result>>
             ELSE IntAttemptRaised(o)
    /\ UNCHANGED <<hint, input_size, iterations, input_data, start_time, i>>
    /\ UNCHANGED <<dvars, cvars, kvars, wvars, ivars>>

\* Line 81.
HIntStartClock ==
    /\ pc = "h_int_start"
    /\ start_time' = clock
    /\ i' = 0
    /\ pc' = "h_int_loop"
    /\ UNCHANGED <<hint, input_size, iterations, input_data, data, calls,
                   clock, retries, result>>
    /\ UNCHANGED <<dvars, cvars, kvars, wvars, ivars>>

\* Lines 82-83.
HIntTimedCall ==
    /\ pc = "h_int_loop"
    /\ i < iterations
    /\ \E o \in Outcomes, d \in 0..MaxCallTicks :
          /\ Invoke(IntValue(input_size), "int", TRUE, o, d)
          /\ IF o = "ok"
             THEN /\ i' = i + 1
                  /\ UNCHANGED <<pc, data, retries, result>>
             ELSE /\ IntAttemptRaised(o)
                  /\ UNCHANGED i
    /\ UNCHANGED <<hint, input_size, iterations, input_data, start_time>>
    /\ UNCHANGED <<dvars, cvars, kvars, wvars, ivars>>

\* Lines 84-85; ZeroDivisionError is not a TypeError, so line 96 catches it.
HIntStopClock ==
    /\ pc = "h_int_loop"
    /\ i >= iterations
    /\ IF iterations = 0
       THEN IntAttemptRaised("ZeroDivisionError")
       ELSE /\ result' = ReturnFloat(clock - start_time, iterations)
            /\ pc' = "done"
            /\ UNCHANGED <<data, retries>>
    /\ UNCHANGED <<hint, input_size, iterations, input_data, calls, clock,
                   start_time, i>>
    /\ UNCHANGED <<dvars, cvars, kvars, wvars, ivars>>

\* Line 90: warm-up with the synthesized list.
HListWarmUp ==
    /\ pc = "h_list_warmup"
    /\ \E o \in Outcomes, d \in 0..MaxCallTicks :
          /\ Invoke(data, "list", FALSE, o, d)
          /\ IF o = "ok"
             THEN pc' = "h_list_start" /\ UNCHANGED result
             ELSE ListAttemptRaised(o)
    /\ UNCHANGED <<hint, input_size, iterations, input_data, data,
                   start_time, i, retries>>
    /\ UNCHANGED <<dvars, cvars, kvars, wvars, ivars>>

\* Line 91.
HListStartClock ==
    /\ pc = "h_list_start"
    /\ start_time' = clock
    /\ i' = 0
    /\ pc' = "h_list_loop"
    /\ UNCHANGED <<hint, input_size, iterations, input_data, data, calls,
                   clock, retries, result>>
    /\ UNCHANGED <<dvars, cvars, kvars, wvars, ivars>>

\* Lines 92-93.
HListTimedCall ==
    /\ pc = "h_list_loop"
    /\ i < iterations
    /\ \E o \in Outcomes, d \in 0..MaxCallTicks :
          /\ Invoke(data, "list", TRUE, o, d)
          /\ IF o = "ok"
             THEN /\ i' = i + 1
                  /\ UNCHANGED <<pc, result>>
             ELSE /\ ListAttemptRaised(o)
                  /\ UNCHANGED i
    /\ UNCHANGED <<hint, input_size, iterations, input_data, data,
                   start_time, retries>>
    /\ UNCHANGED <<dvars, cvars, kvars, wvars, ivars>>

\* Lines 94-95.
HListStopClock ==
    /\ pc = "h_list_loop"
    /\ i >= iterations
    /\ IF iterations = 0
       THEN ListAttemptRaised("ZeroDivisionError")
       ELSE /\ result' = ReturnFloat(clock - start_time, iterations)
            /\ pc' = "done"
    /\ UNCHANGED <<hint, input_size, iterations, input_data, data, calls,
                   clock, start_time, i, retries>>
    /\ UNCHANGED <<dvars, cvars, kvars, wvars, ivars>>

\* The call is over; the caller has its result and may call again.
Return ==
    /\ pc = "done"
    /\ pc' = "idle"
    /\ UNCHANGED <<hint, input_size, iterations, input_data, data, calls,
                   clock, start_time, i, retries, result>>
    /\ UNCHANGED <<dvars, cvars, kvars, wvars, ivars>>

(***************************************************************************)
(* main(): the command line driver, lines 264-303.                         *)
(***************************************************************************)
MaxArgc == 3     \* len(sys.argv) is 1..MaxArgc
MaxSample == 2   \* a measured duration is 1..MaxSample ticks

NotExited == -1
\* Line 281.
CliSizes == <<100, 500, 1000, 2000, 5000>>

\* importlib.import_module and getattr (lines 273-274) succeed or raise;
\* "OtherError" is any exception that is neither ImportError nor
\* AttributeError, e.g. a SyntaxError in the module or an exception raised
\* by its top-level code.
ImportOutcomes == {"ok", "ImportError", "AttributeError", "OtherError"}

\* What measure_execution_time(func, n) can do (see Spec): return a
\* duration, return None, or let an exception escape.
MeasureOutcomes ==
    {ReturnFloat(t, 1) : t \in 1..MaxSample}
        \cup {ReturnNone, Raised("TypeError"), Raised("Exception")}

Line(kind) == [kind |-> kind, n |-> 0, t |-> 0]
Row(n, t) == [kind |-> "row", n |-> n, t |-> t]

\* The first component of detect_complexity(n_values, times) as main uses
\* it: None below MinSamples durations (line 224) and for an empty size
\* list, one of the five names otherwise.  Which name is decided by the fit
\* (DetectSpec); main only tests `complexity is None`.
CliComplexities(nv, ts) ==
    IF Len(ts) < MinSamples \/ nv = <<>> THEN {"None"}
    ELSE {ModelNames[k] : k \in 1..5}

\* No process: the value of main's state while the other specifications run.
CIdle ==
    /\ cli_pc = "idle"
    /\ argc = 0
    /\ import_outcome = "ok"
    /\ imports = 0
    /\ cli_n_values = <<>>
    /\ cli_times = <<>>
    /\ measured = <<>>
    /\ detect_calls = <<>>
    /\ complexity = "pending"
    /\ stdout = <<>>
    /\ exit_status = NotExited

\* The process starts with some command line and some importable or
\* unimportable module.
CInit ==
    /\ cli_pc = "args"
    /\ argc \in 1..MaxArgc
    /\ import_outcome \in ImportOutcomes
    /\ imports = 0
    /\ cli_n_values = <<>>
    /\ cli_times = <<>>
    /\ measured = <<>>
    /\ detect_calls = <<>>
    /\ complexity = "pending"
    /\ stdout = <<>>
    /\ exit_status = NotExited

\* Lines 265-267: too few arguments print the usage text and exit 1.
CheckArgs ==
    /\ cli_pc = "args"
    /\ IF argc < 3
       THEN /\ stdout' = Append(stdout, Line("usage"))
            /\ exit_status' = 1
            /\ cli_pc' = "exited"
       ELSE /\ cli_pc' = "import"
            /\ UNCHANGED <<stdout, exit_status>>
    /\ UNCHANGED <<argc, import_outcome, imports, cli_n_values, cli_times, measured,
                   detect_calls, complexity>>
    /\ UNCHANGED <<mvars, dvars, kvars, wvars, ivars>>

\* Lines 272-277: ImportError and AttributeError are reported and exit 1;
\* any other exception leaves main, and the interpreter prints a traceback
\* to stderr and exits 1.
ImportFunc ==
    /\ cli_pc = "import"
    /\ imports' = imports + 1
    /\ IF import_outcome = "ok"
       THEN /\ cli_pc' = "header"
            /\ UNCHANGED <<stdout, exit_status>>
       ELSE IF import_outcome \in {"ImportError", "AttributeError"}
       THEN /\ stdout' = Append(stdout, Line("import_error"))
            /\ exit_status' = 1
            /\ cli_pc' = "exited"
       ELSE /\ exit_status' = 1
            /\ cli_pc' = "exited"
            /\ UNCHANGED stdout
    /\ UNCHANGED <<argc, import_outcome, cli_n_values, cli_times, measured,
                   detect_calls, complexity>>
    /\ UNCHANGED <<mvars, dvars, kvars, wvars, ivars>>

\* Lines 279-286.
PrintHeader ==
    /\ cli_pc = "header"
    /\ stdout' = stdout \o <<Line("estimating"), Line("table_header"), Line("rule")>>
    /\ cli_n_values' = CliSizes
    /\ cli_times' = <<>>
    /\ cli_pc' = "loop"
    /\ UNCHANGED <<argc, import_outcome, imports, measured, detect_calls, complexity,
                   exit_status>>
    /\ UNCHANGED <<mvars, dvars, kvars, wvars, ivars>>

\* (the loop with `continue` for `break` at line 292)
MutMeasureSizeSkipsFailure ==
    /\ cli_pc = "loop"
    /\ Len(measured) < Len(cli_n_values)
    /\ LET n == cli_n_values[Len(measured) + 1]
       IN  \E t \in MeasureOutcomes :
             /\ measured' = Append(measured, [n |-> n, t |-> t])
             /\ cli_pc' = IF t.kind = "raised" THEN "exited"
                          ELSE IF Len(measured') = Len(cli_n_values)
                          THEN "report" ELSE "loop"
             /\ IF t.kind = "raised"
                THEN /\ exit_status' = 1
                     /\ UNCHANGED <<cli_times, stdout>>
                ELSE IF t = ReturnNone
                THEN /\ stdout' = Append(stdout, Line("failed"))
                     /\ UNCHANGED <<cli_times, exit_status>>
                ELSE /\ cli_times' = Append(cli_times, t)
                     /\ stdout' = Append(stdout, Row(n, t))
                     /\ UNCHANGED exit_status
    /\ UNCHANGED <<argc, import_outcome, imports, cli_n_values, detect_calls, complexity>>
    /\ UNCHANGED <<mvars, dvars, kvars, wvars, ivars>>

\* Lines 288-294: one iteration of the loop, for the next size in order.
\* A None prints the failure line and breaks; an exception escaping
\* measure_execution_time leaves main (traceback, exit 1).
MeasureSize ==
    /\ cli_pc = "loop"
    /\ Len(measured) < Len(cli_n_values)
    /\ LET n == cli_n_values[Len(measured) + 1]
       IN  \E t \in MeasureOutcomes :
             /\ measured' = Append(measured, [n |-> n, t |-> t])
             /\ IF t.kind = "raised"
                THEN /\ exit_status' = 1
                     /\ cli_pc' = "exited"
                     /\ UNCHANGED <<cli_times, stdout>>
                ELSE IF t = ReturnNone
                THEN /\ stdout' = Append(stdout, Line("failed"))
                     /\ cli_pc' = "report"
                     /\ UNCHANGED <<cli_times, exit_status>>
                ELSE /\ cli_times' = Append(cli_times, t)
                     /\ stdout' = Append(stdout, Row(n, t))
                     /\ cli_pc' = IF Len(measured') = Len(cli_n_values)
                                  THEN "report" ELSE "loop"
                     /\ UNCHANGED exit_status
    /\ UNCHANGED <<argc, import_outcome, imports, cli_n_values, detect_calls, complexity>>
    /\ UNCHANGED <<mvars, dvars, kvars, wvars, ivars>>

\* Lines 296-303 and the return of main: with one sample per size,
\* detect_complexity is called and its result printed; main then returns
\* and the process exits with status 0.
Report ==
    /\ cli_pc = "report"
    /\ IF Len(cli_times) = Len(cli_n_values)
       THEN /\ detect_calls' = Append(detect_calls,
                                  [n_values |-> cli_n_values, times |-> cli_times])
            /\ \E c \in CliComplexities(cli_n_values, cli_times) :
                  /\ complexity' = c
                  /\ stdout' = stdout \o
                        (IF c = "None"
                         THEN <<Line("rule"), Line("insufficient")>>
                         ELSE <<Line("rule"), Line("complexity"), Line("rmse")>>)
       ELSE UNCHANGED <<detect_calls, complexity, stdout>>
    /\ exit_status' = 0
    /\ cli_pc' = "exited"
    /\ UNCHANGED <<argc, import_outcome, imports, cli_n_values, cli_times, measured>>
    /\ UNCHANGED <<mvars, dvars, kvars, wvars, ivars>>

(***************************************************************************)
(* SubagentCoordinator (src/subagent_coordinator.py): construction and     *)
(* run().                                                                  *)
(***************************************************************************)
MaxAgents == 2   \* --agents is 0..MaxAgents
MaxLocks == 2    \* lock files 1..MaxLocks may lie in docs/.locks
MaxFiles == 1    \* docs holds 0..MaxFiles documentation files

LockFiles == 1..MaxLocks
\* One change of the file system; lock is the number of the lock file, or 0.
FsOp(op, path, lock) == [op |-> op, path |-> path, lock |-> lock]

\* No coordinator: the value of its state while the other specifications run.
KIdle ==
    /\ co_pc = "idle"
    /\ dryrun = FALSE
    /\ num_agents = 0
    /\ prompt_exists = FALSE
    /\ lock_dir_exists = FALSE
    /\ locks = {}
    /\ progress_exists = FALSE
    /\ total_files = 0
    /\ agent_i = 0
    /\ processes = <<>>
    /\ waited = 0
    /\ commands = <<>>
    /\ fs_ops = <<>>
    /\ co_exit = NotExited

\* main() of lines 234-252 has parsed --agents and --dryrun; the working
\* directory is in some state.
KInit ==
    /\ co_pc = "construct"
    /\ dryrun \in BOOLEAN
    /\ num_agents \in 0..MaxAgents
    /\ prompt_exists \in BOOLEAN
    /\ lock_dir_exists \in BOOLEAN
    /\ locks \in SUBSET LockFiles
    /\ lock_dir_exists \/ locks = {}
    /\ progress_exists \in BOOLEAN
    /\ total_files \in 0..MaxFiles
    /\ agent_i = 0
    /\ processes = <<>>
    /\ waited = 0
    /\ commands = <<>>
    /\ fs_ops = <<>>
    /\ co_exit = NotExited

\* Lines 31-37 with load_prompt (lines 39-50): without the prompt file the
\* process exits 1; otherwise docs/.locks is created unless it exists.
Construct ==
    /\ co_pc = "construct"
    /\ IF ~prompt_exists
       THEN /\ co_exit' = 1
            /\ co_pc' = "exited"
            /\ UNCHANGED <<lock_dir_exists, fs_ops>>
       ELSE /\ lock_dir_exists' = TRUE
            /\ fs_ops' = IF lock_dir_exists THEN fs_ops
                         ELSE Append(fs_ops, FsOp("mkdir", "docs/.locks", 0))
            /\ co_pc' = "init_progress"
            /\ UNCHANGED co_exit
    /\ UNCHANGED <<dryrun, num_agents, prompt_exists, locks, progress_exists,
                   total_files, agent_i, processes, waited, commands>>
    /\ UNCHANGED <<mvars, dvars, cvars, wvars, ivars>>

\* Line 81 with init_progress (lines 52-70), the first statement of
\* spawn_subagents: the progress file is written anew.
InitProgress ==
    /\ co_pc = "init_progress"
    /\ progress_exists' = TRUE
    /\ fs_ops' = Append(fs_ops, FsOp("write", ".subagent_progress.json", 0))
    /\ co_pc' = "spawn"
    /\ UNCHANGED <<dryrun, num_agents, prompt_exists, lock_dir_exists, locks,
                   total_files, agent_i, processes, waited, commands, co_exit>>
    /\ UNCHANGED <<mvars, dvars, cvars, wvars, ivars>>

\* Lines 92-111: one iteration of the loop over the agents.  A dry run
\* only prints; otherwise Popen starts a worker or raises.
Spawn ==
    /\ co_pc = "spawn"
    /\ agent_i < num_agents
    /\ agent_i' = agent_i + 1
    /\ IF dryrun THEN UNCHANGED processes
       ELSE \E started \in BOOLEAN :
               processes' = IF started
                            THEN Append(processes,
                                        [agent |-> agent_i + 1, state |-> "running"])
                            ELSE processes
    /\ UNCHANGED <<co_pc, dryrun, num_agents, prompt_exists, lock_dir_exists, locks,
                   progress_exists, total_files, waited, commands, fs_ops, co_exit>>
    /\ UNCHANGED <<mvars, dvars, cvars, wvars, ivars>>

\* Lines 113-119: after the loop a dry run returns from spawn_subagents.
SpawnDone ==
    /\ co_pc = "spawn"
    /\ agent_i = num_agents
    /\ co_pc' = IF dryrun THEN "cleanup" ELSE "wait"
    /\ UNCHANGED <<dryrun, num_agents, prompt_exists, lock_dir_exists, locks,
                   progress_exists, total_files, agent_i, processes, waited,
                   commands, fs_ops, co_exit>>
    /\ UNCHANGED <<mvars, dvars, cvars, wvars, ivars>>

\* Lines 122-135: one iteration of the waiting loop.  communicate returns
\* with the worker exited, times out (the worker is killed), or raises
\* another exception (the worker is left as it is).
Wait ==
    /\ co_pc = "wait"
    /\ waited < Len(processes)
    /\ waited' = waited + 1
    /\ \E outcome \in {"exited_0", "exited_nonzero", "killed", "running"} :
          processes' = [processes EXCEPT ![waited + 1].state = outcome]
    /\ UNCHANGED <<co_pc, dryrun, num_agents, prompt_exists, lock_dir_exists, locks,
                   progress_exists, total_files, agent_i, commands, fs_ops, co_exit>>
    /\ UNCHANGED <<mvars, dvars, cvars, wvars, ivars>>

\* Lines 137-139.
WaitDone ==
    /\ co_pc = "wait"
    /\ waited = Len(processes)
    /\ co_pc' = "cleanup"
    /\ UNCHANGED <<dryrun, num_agents, prompt_exists, lock_dir_exists, locks,
                   progress_exists, total_files, agent_i, processes, waited,
                   commands, fs_ops, co_exit>>
    /\ UNCHANGED <<mvars, dvars, cvars, wvars, ivars>>

\* The unlink calls of cleanup_locks for a set of lock files, in some order.
RECURSIVE Unlinks(_)
Unlinks(files) ==
    IF files = {} THEN <<>>
    ELSE LET f == CHOOSE x \in files : \A y \in files : x <= y
         IN  <<FsOp("unlink", "docs/.locks/*.lock", f)>> \o Unlinks(files \ {f})

\* Line 225 with cleanup_locks (lines 160-167): every *.lock file in
\* docs/.locks is removed.
CleanupLocks ==
    /\ co_pc = "cleanup"
    /\ locks' = {}
    /\ fs_ops' = fs_ops \o Unlinks(locks)
    /\ co_pc' = "show_progress"
    /\ UNCHANGED <<dryrun, num_agents, prompt_exists, lock_dir_exists,
                   progress_exists, total_files, agent_i, processes, waited,
                   commands, co_exit>>
    /\ UNCHANGED <<mvars, dvars, cvars, wvars, ivars>>

\* Line 226 with show_progress (lines 141-158): the progress file is read;
\* 100*completed/total at line 155 raises ZeroDivisionError for total = 0,
\* which ends the process with a traceback and status 1.
ShowProgress ==
    /\ co_pc = "show_progress"
    /\ IF progress_exists /\ total_files = 0
       THEN co_exit' = 1 /\ co_pc' = "exited"
       ELSE co_pc' = "finalize" /\ UNCHANGED co_exit
    /\ UNCHANGED <<dryrun, num_agents, prompt_exists, lock_dir_exists, locks,
                   progress_exists, total_files, agent_i, processes, waited,
                   commands, fs_ops>>
    /\ UNCHANGED <<mvars, dvars, cvars, wvars, ivars>>

\* Line 227 with finalize (lines 169-209) and lines 229-231: a dry run only
\* prints; otherwise make check runs and, when it succeeds, git add and
\* git commit.  run() then returns and the process exits with status 0.
Finalize ==
    /\ co_pc = "finalize"
    /\ IF dryrun THEN UNCHANGED commands
       ELSE \E make_ok \in BOOLEAN :
               commands' = commands \o
                   (IF make_ok THEN <<"make check", "git add", "git commit">>
                    ELSE <<"make check">>)
    /\ co_exit' = 0
    /\ co_pc' = "exited"
    /\ UNCHANGED <<dryrun, num_agents, prompt_exists, lock_dir_exists, locks,
                   progress_exists, total_files, agent_i, processes, waited, fs_ops>>
    /\ UNCHANGED <<mvars, dvars, cvars, wvars, ivars>>

(***************************************************************************)
(* subagent_worker.py: the workers the coordinator starts.  Every worker   *)
(* runs main() over the same sorted list of documents and takes, for each  *)
(* of them, a lock file in docs/.locks named after the document's stem.    *)
(* The workers are separate processes: between any two steps of one, the   *)
(* others may take steps.  acquire_lock is two steps, the test of line 24  *)
(* and the write of line 30; the file system does each of them at once.    *)
(* Documents are numbered in the order of sorted(rglob("*.md")); documents *)
(* 2k - 1 and 2k have the same file name in two directories.  unlink fails *)
(* only for a file that is not there.                                      *)
(***************************************************************************)
MaxWorkers == 2  \* worker processes 1..MaxWorkers
MaxDocs == 3     \* documents 1..MaxDocs under docs/

Workers == 1..MaxWorkers
Docs == 1..MaxDocs

\* Line 22: Path(filepath).stem, the file name without directory and suffix.
Stem(filepath) == (filepath + 1) \div 2
LockNames == {Stem(filepath) : filepath \in Docs}

\* A lock file that does not exist, and the value None of a lock.
Absent == [agent |-> 0, file |-> 0]
NoLock == 0

\* How a call of process_file ended: the document, the value returned, why,
\* the lock file found at line 24, whether release_lock removed a file, and
\* which other workers held the lock of that name when it was removed.
Ended(filepath, value, cause, blocker, unlinked, robbed) ==
    [file |-> filepath, value |-> value, cause |-> cause, blocker |-> blocker,
     unlinked |-> unlinked, robbed |-> robbed]
NoCallYet == Ended(0, "none", "none", Absent, FALSE, {})

\* No worker: the value of the workers' state while the other specifications run.
WIdle ==
    /\ md_files = <<>>
    /\ lock_files = [l \in LockNames |-> Absent]
    /\ wk_pc = [w \in Workers |-> "idle"]
    /\ wk_file = [w \in Workers |-> 0]
    /\ wk_lock = [w \in Workers |-> NoLock]
    /\ wk_holding = [w \in Workers |-> {}]
    /\ wk_last = [w \in Workers |-> NoCallYet]

\* The workers have been started; docs/ holds some documents and docs/.locks
\* is empty.
WInit ==
    /\ md_files \in {[k \in 1..n |-> k] : n \in 0..MaxDocs}
    /\ lock_files = [l \in LockNames |-> Absent]
    /\ wk_pc = [w \in Workers |-> "main"]
    /\ wk_file = [w \in Workers |-> 0]
    /\ wk_lock = [w \in Workers |-> NoLock]
    /\ wk_holding = [w \in Workers |-> {}]
    /\ wk_last = [w \in Workers |-> NoCallYet]

\* Lines 146-154 after process_file returned: the loop takes the next
\* document, or main ends.
Returns(w, ended) ==
    /\ wk_last' = [wk_last EXCEPT ![w] = ended]
    /\ wk_lock' = [wk_lock EXCEPT ![w] = NoLock]
    /\ IF wk_file[w] < Len(md_files)
       THEN /\ wk_file' = [wk_file EXCEPT ![w] = wk_file[w] + 1]
            /\ wk_pc' = [wk_pc EXCEPT ![w] = "acquire"]
       ELSE /\ wk_pc' = [wk_pc EXCEPT ![w] = "exited"]
            /\ UNCHANGED wk_file

\* Lines 132-146: main up to the first iteration of its loop; without
\* documents it returns at line 140.
WorkerMain ==
    \E w \in Workers :
       /\ wk_pc[w] = "main"
       /\ IF md_files = <<>>
          THEN wk_pc' = [wk_pc EXCEPT ![w] = "exited"] /\ UNCHANGED wk_file
          ELSE /\ wk_pc' = [wk_pc EXCEPT ![w] = "acquire"]
               /\ wk_file' = [wk_file EXCEPT ![w] = 1]
       /\ UNCHANGED <<md_files, lock_files, wk_lock, wk_holding, wk_last>>
       /\ UNCHANGED <<mvars, dvars, cvars, kvars, ivars>>

\* Lines 148, 68 and 22-26: process_file calls acquire_lock, which tests
\* whether the lock file exists; if so acquire_lock returns None and
\* process_file returns False at line 71.
AcquireLockTest ==
    \E w \in Workers :
       /\ wk_pc[w] = "acquire"
       /\ LET filepath == md_files[wk_file[w]]
              lock_file == Stem(filepath)
          IN  IF lock_files[lock_file] # Absent
              THEN Returns(w, Ended(filepath, "False", "locked",
                                    lock_files[lock_file], FALSE, {}))
              ELSE /\ wk_pc' = [wk_pc EXCEPT ![w] = "write"]
                   /\ UNCHANGED <<wk_file, wk_lock, wk_last>>
       /\ UNCHANGED <<md_files, lock_files, wk_holding>>
       /\ UNCHANGED <<mvars, dvars, cvars, kvars, ivars>>

\* Lines 28-33 and 69-71: write_text creates the lock file or replaces its
\* content, and acquire_lock returns its path; when write_text raises,
\* acquire_lock returns None and process_file returns False.
AcquireLockWrite ==
    \E w \in Workers, written \in BOOLEAN :
       /\ wk_pc[w] = "write"
       /\ LET filepath == md_files[wk_file[w]]
              lock_file == Stem(filepath)
          IN  IF written
              THEN /\ lock_files' = [lock_files EXCEPT
                                        ![lock_file] = [agent |-> w, file |-> filepath]]
                   /\ wk_lock' = [wk_lock EXCEPT ![w] = lock_file]
                   /\ wk_holding' = [wk_holding EXCEPT ![w] = @ \cup {lock_file}]
                   /\ wk_pc' = [wk_pc EXCEPT ![w] = "process"]
                   /\ UNCHANGED <<wk_file, wk_last>>
              ELSE /\ Returns(w, Ended(filepath, "False", "write_failed",
                                       Absent, FALSE, {}))
                   /\ UNCHANGED <<lock_files, wk_holding>>
       /\ UNCHANGED md_files
       /\ UNCHANGED <<mvars, dvars, cvars, kvars, ivars>>

\* Lines 73-113: the body of process_file returns True or raises (False
\* from line 110); `releases` tells whether release_lock(lock) is called
\* on the way out.  release_lock (lines 36-42) unlinks the file of that
\* name; FileNotFoundError is swallowed.
EndProcessFile(w, raised, releases) ==
    LET filepath == md_files[wk_file[w]]
        lock == wk_lock[w]
        unlinked == releases /\ lock_files[lock] # Absent
        robbed == IF unlinked
                  THEN {v \in Workers \ {w} : lock \in wk_holding[v]}
                  ELSE {}
    IN  /\ lock_files' = IF unlinked THEN [lock_files EXCEPT ![lock] = Absent]
                         ELSE lock_files
        /\ wk_holding' = IF releases THEN [wk_holding EXCEPT ![w] = @ \ {lock}]
                         ELSE wk_holding
        /\ Returns(w, Ended(filepath, IF raised THEN "False" ELSE "True",
                            IF raised THEN "error" ELSE "processed",
                            Absent, unlinked, robbed))

\* process_file with the release in the try's else branch only.
MutProcessFileReleasesOnSuccess ==
    \E w \in Workers, raised \in BOOLEAN :
       /\ wk_pc[w] = "process"
       /\ EndProcessFile(w, raised, ~raised)
       /\ UNCHANGED md_files
       /\ UNCHANGED <<mvars, dvars, cvars, kvars, ivars>>

\* Lines 73-113: the lock is held while the body runs; `finally` releases
\* it whether the body returned or raised.
ProcessFile ==
    \E w \in Workers, raised \in BOOLEAN :
       /\ wk_pc[w] = "process"
       /\ EndProcessFile(w, raised, TRUE)
       /\ UNCHANGED md_files
       /\ UNCHANGED <<mvars, dvars, cvars, kvars, ivars>>

(***************************************************************************)
(* scripts/introspect.py: one run of the script per action.  The item list *)
(* is rebuilt by every run and is the same in each; only the names matter  *)
(* here.  Names are numbered in the order of line 130, so the list is an   *)
(* increasing sequence of distinct names.  The walk is driven from         *)
(* outside: --start first, then --next with the name printed last, or with *)
(* a name that is not in the list; a run that exits with status 1 ends it. *)
(***************************************************************************)
MaxNames == 4    \* names 1..MaxNames may be items

ItemNames == 1..MaxNames
Misspelt == MaxNames + 1   \* a name that is never an item
NoName == 0                \* None as next_name

RECURSIVE Sorted(_)
\* items.sort(key=...) of line 130: the names of a set in increasing order.
Sorted(names) ==
    IF names = {} THEN <<>>
    ELSE LET least == CHOOSE x \in names : \A y \in names : x <= y
         IN  <<least>> \o Sorted(names \ {least})

\* What a run printed: an item with its closing line, the completion
\* message of line 205, the error of lines 199-201, or the count.
Output(kind, name, closing, next_name) ==
    [kind |-> kind, name |-> name, closing |-> closing, next_name |-> next_name]

\* Lines 167-183, the header and the last line: "Next: <name>" for a
\* next_name that is neither None nor empty.
format_item(name, next_name) ==
    IF next_name # NoName
    THEN Output("item", name, "Next:", next_name)
    ELSE Output("item", name, "This is the last item.", NoName)

\* An index of a Python list.
At(list, idx) == list[idx + 1]
NotFound == -1   \* None as found_idx

\* Lines 186-191: the index of the first item of that name, or None.
find_item_index(list, target) ==
    IF \E k \in 1..Len(list) : list[k] = target
    THEN (CHOOSE k \in 1..Len(list) :
             /\ list[k] = target
             /\ \A j \in 1..(k - 1) : list[j] # target) - 1
    ELSE NotFound

\* handle_next taking the item after next_idx as the last one.
MutHandleNextStopsEarly(list, target) ==
    LET found_idx == find_item_index(list, target)
    IN  IF found_idx = NotFound
        THEN [out |-> Output("error", target, "", NoName), status |-> 1]
        ELSE IF found_idx + 1 >= Len(list)
        THEN [out |-> Output("complete", target, "", NoName), status |-> 0]
        ELSE LET next_idx == found_idx + 1
                 next_name == IF next_idx + 2 < Len(list)
                              THEN At(list, next_idx + 1) ELSE NoName
             IN  [out |-> format_item(At(list, next_idx), next_name), status |-> 0]

\* Lines 194-211: what the run prints and its exit status.
handle_next(list, target) ==
    LET found_idx == find_item_index(list, target)
    IN  IF found_idx = NotFound
        THEN [out |-> Output("error", target, "", NoName), status |-> 1]
        ELSE IF found_idx + 1 >= Len(list)
        THEN [out |-> Output("complete", target, "", NoName), status |-> 0]
        ELSE LET next_idx == found_idx + 1
                 next_name == IF next_idx + 1 < Len(list)
                              THEN At(list, next_idx + 1) ELSE NoName
             IN  [out |-> format_item(At(list, next_idx), next_name), status |-> 0]

\* No run of the script: the value of its state while the other
\* specifications run.
IIdle ==
    /\ items = <<>>
    /\ shown = <<>>
    /\ it_arg = "idle"
    /\ it_target = NoName
    /\ it_exit = NotExited

\* Nothing has run yet; the interpreter has some non-empty set of items.
IInit ==
    /\ items \in {Sorted(names) : names \in (SUBSET ItemNames) \ {{}}}
    /\ shown = <<>>
    /\ it_arg = "none"
    /\ it_target = NoName
    /\ it_exit = NotExited

\* Lines 225-228: --count, before the walk.
RunCount ==
    /\ it_arg = "none"
    /\ it_arg' = "--count"
    /\ shown' = Append(shown, Output("count", NoName, "", Len(items)))
    /\ it_exit' = 0
    /\ UNCHANGED <<items, it_target>>
    /\ UNCHANGED <<mvars, dvars, cvars, kvars, wvars>>

\* Lines 225 and 229-232: --start prints the first item.
RunStart ==
    /\ it_arg \in {"none", "--count"}
    /\ it_arg' = "--start"
    /\ LET name == At(items, 0)
           next_name == IF Len(items) > 1 THEN At(items, 1) ELSE NoName
       IN  shown' = Append(shown, format_item(name, next_name))
    /\ it_exit' = 0
    /\ UNCHANGED <<items, it_target>>
    /\ UNCHANGED <<mvars, dvars, cvars, kvars, wvars>>

\* Lines 225 and 233-234: --next NAME, with the name of the item the
\* previous run printed or with a name that is not in the list.
RunNext ==
    /\ it_arg \in {"--start", "--next"}
    /\ it_exit = 0
    /\ shown[Len(shown)].kind = "item"
    /\ \E target \in {shown[Len(shown)].name}
                        \cup ((ItemNames \cup {Misspelt}) \ {items[k] : k \in 1..Len(items)}) :
          LET run == handle_next(items, target)
          IN  /\ it_target' = target
              /\ shown' = Append(shown, run.out)
              /\ it_exit' = run.status
    /\ it_arg' = "--next"
    /\ UNCHANGED items
    /\ UNCHANGED <<mvars, dvars, cvars, kvars, wvars>>

(***************************************************************************)
(* DetectSpec: detect_complexity on bounded inputs.  A size series is       *)
(* strictly increasing over 0..MaxN (spec 3, SizeSeries; 0 exercises the   *)
(* `if n > 0 else 0` of the model library).  A timing series is drawn from *)
(* one family of durations: 0..MaxT ticks in any order; NoiseBase or       *)
(* NoiseBase + 1 ticks, a constant with one tick of noise; or c * n * n    *)
(* ticks for a size n and one factor c in 1..MaxC; or LnScale * n * ln(n)   *)
(* ticks for a size n >= 1.  The two series are drawn independently, so    *)
(* all lengths 0..MaxLen meet.                                             *)
(***************************************************************************)
MaxLen == 3      \* the longest series
MaxN == 3        \* sizes 0..MaxN
MaxT == 3        \* durations 0..MaxT ticks
NoiseBase == 10  \* two durations one tick apart: NoiseBase, NoiseBase + 1
MaxC == 2        \* factors 1..MaxC of the quadratic durations

SizeValues == 0..MaxN
NoiseValues == {NoiseBase, NoiseBase + 1}
SquareValues(c) == {c * n * n : n \in SizeValues}
NLogNTicks(n) == n * LnTable[n]
NLogNValues == {NLogNTicks(n) : n \in SizeValues \ {0}}
TimeFamilies ==
    {0..MaxT, NoiseValues, NLogNValues} \cup {SquareValues(c) : c \in 1..MaxC}
TimeValues == UNION TimeFamilies

DInit ==
    /\ n_values = <<>>
    /\ times = <<>>
    /\ dpc = "build"
    /\ verdict = NoVerdict
    /\ nruns = 0
    /\ remembered = NoRun
    /\ initial = ScoreStart
    /\ tie_break = NotCalled

AppendSize ==
    /\ dpc = "build"
    /\ Len(n_values) < MaxLen
    /\ \E n \in SizeValues :
          /\ IF n_values = <<>> THEN TRUE ELSE n_values[Len(n_values)] < n
          /\ n_values' = Append(n_values, n)
    /\ UNCHANGED <<times, dpc, verdict, nruns, remembered, initial, tie_break>>
    /\ UNCHANGED <<mvars, cvars, kvars, wvars, ivars>>

AppendTime ==
    /\ dpc = "build"
    /\ Len(times) < MaxLen
    /\ \E t \in TimeValues :
          /\ \E family \in TimeFamilies :
                /\ t \in family
                /\ \A k \in DOMAIN times : times[k] \in family
          /\ times' = Append(times, t)
    /\ UNCHANGED <<n_values, dpc, verdict, nruns, remembered, initial, tie_break>>
    /\ UNCHANGED <<mvars, cvars, kvars, wvars, ivars>>

\* What the history keeps of a call; `others` tells whether a call with
\* other arguments was made after it.
Remember(nv, ts, v, run) ==
    [n_values |-> nv, times |-> ts, verdict |-> v, run |-> run, others |-> FALSE]

\* (detect_complexity with a best score that survives from the previous call,
\* as a module-level best_score that is never reset would)
MutDetectKeepsBestScore ==
    /\ dpc = "build"
    /\ LET new == detect_complexity(n_values, times)
       IN  verdict' = IF /\ verdict.score.kind = "sqrt"
                         /\ new.score.kind = "sqrt"
                         /\ ~StrictlyBetter(new.score, verdict.score)
                      THEN verdict
                      ELSE new
    /\ dpc' = "done"
    /\ nruns' = nruns + 1
    /\ \E keep \in BOOLEAN :
          remembered' =
              IF keep /\ remembered # NoRun
              THEN [remembered EXCEPT !.others =
                        @ \/ n_values # remembered.n_values
                          \/ times # remembered.times]
              ELSE Remember(n_values, times, verdict', nruns + 1)
    /\ UNCHANGED <<n_values, times, initial, tie_break>>
    /\ UNCHANGED <<mvars, cvars, kvars, wvars, ivars>>

\* One call detect_complexity(n_values, times).  Its result depends on the
\* two arguments only: lines 212-261 read no global and no attribute, and
\* build models and model_priority anew.  The arguments are not modified
\* (line 235 copies n_values).  The history either keeps the call it
\* remembers or remembers this one.
Detect ==
    /\ dpc = "build"
    /\ verdict' = detect_complexity(n_values, times)
    /\ dpc' = "done"
    /\ nruns' = nruns + 1
    /\ \E keep \in BOOLEAN :
          remembered' =
              IF keep /\ remembered # NoRun
              THEN [remembered EXCEPT !.others =
                        @ \/ n_values # remembered.n_values
                          \/ times # remembered.times]
              ELSE Remember(n_values, times, verdict', nruns + 1)
    /\ UNCHANGED <<n_values, times, initial, tie_break>>
    /\ UNCHANGED <<mvars, cvars, kvars, wvars, ivars>>

DetectInit == MInit /\ DInit /\ CIdle /\ KIdle /\ WIdle /\ IIdle

DetectNext ==
    \/ AppendSize
    \/ AppendTime
    \/ Detect

DetectSpec == DetectInit /\ [][DetectNext]_vars

(***************************************************************************)
(* RunsSpec: up to MaxRuns calls of detect_complexity in a row, each with   *)
(* MinSamples consecutive sizes starting at 0 or 1 and durations of        *)
(* 1..MaxRunT ticks, the first of 1 tick (or with the empty lists of the   *)
(* initial state).                                                         *)
(***************************************************************************)
MaxRuns == 3     \* calls in a row
MaxRunT == 2     \* durations 1..MaxRunT ticks

RunSizes == {[k \in 1..MinSamples |-> k - 1 + first] : first \in 0..1}
RunTimes == {ts \in [1..MinSamples -> 1..MaxRunT] : ts[1] = 1}

NextCall ==
    /\ nruns < MaxRuns
    /\ dpc = "done" \/ nruns = 0
    /\ n_values' \in RunSizes
    /\ times' \in RunTimes
    /\ dpc' = "build"
    /\ UNCHANGED <<verdict, nruns, remembered, initial, tie_break>>
    /\ UNCHANGED <<mvars, cvars, kvars, wvars, ivars>>

RunsNext ==
    \/ NextCall
    \/ Detect

RunsSpec == DetectInit /\ [][RunsNext]_vars

(***************************************************************************)
(* SelectSpec: one call of detect_complexity whose locals are kept.  The   *)
(* sizes are no series at all or SelectLen sizes of 0..MaxN that never     *)
(* decrease (equal sizes make the variance of ln(size) zero); the          *)
(* durations are SelectLen durations of 0..MaxSelT ticks in any order.     *)
(* The logarithm of the model has two decimals and its sums are exact, so  *)
(* that on a few of these series the model selects another model than the  *)
(* floats of the code do; how the verdict follows from the scores is the   *)
(* same.                                                                   *)
(***************************************************************************)
MaxSelT == 2     \* durations 0..MaxSelT ticks

SelectLen == MinSamples + 1
SelectSizes ==
    {<<>>} \cup {nv \in [1..SelectLen -> 0..MaxN] :
                    \A k \in 1..(SelectLen - 1) : nv[k] <= nv[k + 1]}
SelectTimes == [1..SelectLen -> 0..MaxSelT]

DrawSeries ==
    /\ dpc = "build"
    /\ nruns = 0
    /\ n_values = <<>>
    /\ times = <<>>
    /\ n_values' \in SelectSizes
    /\ times' \in SelectTimes
    /\ UNCHANGED <<dpc, verdict, nruns, remembered, initial, tie_break>>
    /\ UNCHANGED <<mvars, cvars, kvars, wvars, ivars>>

LinearOrLinearithmic == {"O(n) (Linear)", "O(n log n) (Linearithmic)"}

\* One call detect_complexity(n_values, times) with at least MinSamples
\* durations, keeping what lines 249 and 256 assigned.
DetectKeepingLocals ==
    /\ dpc = "build"
    /\ Len(times) >= MinSamples
    /\ initial' = _score_models(Normalize(times), Models(n_values))
    /\ tie_break' = IF initial'.best_fit \in LinearOrLinearithmic
                    THEN _tie_break_linear_vs_nlogn(n_values, times,
                                                    initial'.scores)
                    ELSE NotCalled
    /\ verdict' = detect_complexity(n_values, times)
    /\ dpc' = "done"
    /\ nruns' = nruns + 1
    /\ remembered' = Remember(n_values, times, verdict', nruns + 1)
    /\ UNCHANGED <<n_values, times>>
    /\ UNCHANGED <<mvars, cvars, kvars, wvars, ivars>>

SelectNext ==
    \/ DrawSeries
    \/ DetectKeepingLocals

SelectSpec == DetectInit /\ [][SelectNext]_vars

CliInit == MInit /\ DInit /\ CInit /\ KIdle /\ WIdle /\ IIdle

CliNext ==
    \/ CheckArgs
    \/ ImportFunc
    \/ PrintHeader
    \/ MeasureSize
    \/ Report

CliSpec == CliInit /\ [][CliNext]_vars

CoordInit == MInit /\ DInit /\ CIdle /\ KInit /\ WIdle /\ IIdle

CoordNext ==
    \/ Construct
    \/ InitProgress
    \/ Spawn
    \/ SpawnDone
    \/ Wait
    \/ WaitDone
    \/ CleanupLocks
    \/ ShowProgress
    \/ Finalize

CoordSpec == CoordInit /\ [][CoordNext]_vars

WorkerInit == MInit /\ DInit /\ CIdle /\ KIdle /\ WInit /\ IIdle

WorkerNext ==
    \/ WorkerMain
    \/ AcquireLockTest
    \/ AcquireLockWrite
    \/ ProcessFile

WorkerSpec == WorkerInit /\ [][WorkerNext]_vars

IntrospectInit == MInit /\ DInit /\ CIdle /\ KIdle /\ WIdle /\ IInit

IntrospectNext ==
    \/ RunCount
    \/ RunStart
    \/ RunNext

\* Whoever drives the walk keeps running the script while there is a next
\* command to give.
IntrospectSpec ==
    IntrospectInit /\ [][IntrospectNext]_vars
    /\ WF_vars(RunStart) /\ WF_vars(RunNext)

Init == MInit /\ DInit /\ CIdle /\ KIdle /\ WIdle /\ IIdle

Next ==
    \/ Call
    \/ CheckTypeHints
    \/ Fallback
    \/ WarmUp
    \/ StartClock
    \/ TimedCall
    \/ StopClock
    \/ HIntWarmUp
    \/ HIntStartClock
    \/ HIntTimedCall
    \/ HIntStopClock
    \/ HListWarmUp
    \/ HListStartClock
    \/ HListTimedCall
    \/ HListStopClock
    \/ Return

Spec == Init /\ [][Next]_vars

(***************************************************************************)
(* Properties of the timing harness (checked under Spec).                  *)
(***************************************************************************)
SequenceHints == {"list", "Sequence", "alias_list", "alias_Sequence"}
HeuristicPcs == {"h_int_warmup", "h_int_start", "h_int_loop",
                 "h_list_warmup", "h_list_start", "h_list_loop"}
SomeCallRaised == \E k \in 1..Len(calls) : calls[k].outcome # "ok"

\* C1: with a first parameter annotated int, every invocation (warm-up and
\* timed) passes the raw integer input_size, never a list, and
\* _measure_heuristic is never entered, also when an invocation raises.
C1_IntHintPassesRawSize ==
    hint = "int" =>
        /\ \A k \in 1..Len(calls) :
              /\ calls[k].arg.kind = "int"
              /\ calls[k].arg.int = input_size
              /\ calls[k].attempt = "declared"
        /\ pc \notin HeuristicPcs
        /\ retries = 0

\* C1 witness: an int-annotated function raised TypeError when called with the
\* integer, and the call ended with None without any fallback.
C1_Witness ==
    /\ hint = "int"
    /\ pc = "done"
    /\ Len(calls) = 2
    /\ calls[2].outcome = "TypeError"
    /\ result = ReturnNone

\* C2: with a first parameter annotated list, typing.Sequence or a generic
\* alias of one of them, every invocation receives a list of exactly
\* input_size elements, the integers 0 .. input_size-1 in order.
C2_SequenceHintPassesRange ==
    hint \in SequenceHints =>
        \A k \in 1..Len(calls) :
            /\ calls[k].arg.kind = "list"
            /\ Len(calls[k].arg.items) = input_size
            /\ \A j \in 1..Len(calls[k].arg.items) : calls[k].arg.items[j] = j - 1

\* C2 witness: a List[int]-annotated function was measured to the end at the
\* largest size.
C2_Witness ==
    /\ hint = "alias_list"
    /\ input_size = MaxSize
    /\ pc = "done"
    /\ result.kind = "float"
    /\ Len(calls) = iterations + 1

\* C3: whenever an invocation raised, the finished call returned None: no
\* number, and no exception leaving measure_execution_time.
C3_AnyFailureReturnsNone ==
    (pc = "done" /\ SomeCallRaised) => result = ReturnNone

\* C4: in the heuristic fallback an error other than TypeError in the integer
\* attempt, and any error in the list attempt, makes _measure_heuristic
\* return None.
C4_HeuristicHardFailureReturnsNone ==
    (/\ pc = "done"
     /\ \E k \in 1..Len(calls) :
           \/ calls[k].attempt = "int" /\ calls[k].outcome = "Exception"
           \/ calls[k].attempt = "list" /\ calls[k].outcome # "ok")
        => result = ReturnNone

NoUsableHint == hint \notin ({"int"} \cup SequenceHints)

\* C5: without a usable annotation the first invocation passes the raw
\* integer; a list (of input_size elements) is passed only after an integer
\* invocation raised TypeError; the retry happens at most once; and no integer
\* invocation follows a list invocation.
C5_HeuristicIntThenList ==
    NoUsableHint =>
        /\ calls # <<>> =>
              calls[1].arg.kind = "int" /\ calls[1].arg.int = input_size
        /\ \A k \in 1..Len(calls) :
              calls[k].arg.kind = "list" =>
                  /\ Len(calls[k].arg.items) = input_size
                  /\ \E j \in 1..(k - 1) :
                        /\ calls[j].arg.kind = "int"
                        /\ calls[j].outcome = "TypeError"
        /\ \A j, k \in 1..Len(calls) :
              (j < k /\ calls[j].arg.kind = "list") => calls[k].arg.kind = "list"
        /\ Cardinality({k \in 1..Len(calls) :
              calls[k].arg.kind = "int" /\ calls[k].outcome # "ok"}) <= 1
        /\ retries <= 1

\* C5 witness: an unannotated function raised TypeError in a timed integer
\* invocation and was then measured to the end with the list.
C5_Witness ==
    /\ hint = "empty"
    /\ pc = "done"
    /\ retries = 1
    /\ result.kind = "float"
    /\ Len(calls) >= 4
    /\ calls[2].arg.kind = "int" /\ calls[2].outcome = "TypeError"
    /\ calls[Len(calls)].arg.kind = "list"

\* C6: a successful measurement with a declared-type input made exactly
\* iterations+1 invocations with the same input, the first one (the warm-up)
\* before the clock was started and the others while it ran, and returned
\* (end - start) / iterations >= 0, the time of the timed invocations only.
C6_WarmUpThenTimedIterations ==
    (NoUsableHint = FALSE /\ pc \in {"done", "idle"} /\ result.kind = "float") =>
        /\ Len(calls) = iterations + 1
        /\ \A k \in 1..Len(calls) : calls[k].arg = input_data
        /\ calls[1].timed = FALSE
        /\ \A k \in 2..Len(calls) : calls[k].timed = TRUE
        /\ result.den = iterations
        /\ result.den > 0
        /\ result.num = clock - start_time
        /\ result.num >= 0
        /\ result.num <= iterations * MaxCallTicks

\* C6 witness: an int-annotated function was measured with the largest
\* number of iterations, its warm-up and its timed invocations taking time.
C6_Witness ==
    /\ hint = "int"
    /\ pc = "done"
    /\ iterations = MaxIter
    /\ result.kind = "float"
    /\ start_time > 0
    /\ result.num = iterations * MaxCallTicks

(***************************************************************************)
(* Properties of detect_complexity (checked under DetectSpec).             *)
(***************************************************************************)
FiveModels == {"O(1) (Constant)", "O(log n) (Logarithmic)", "O(n) (Linear)",
               "O(n log n) (Linearithmic)", "O(n^2) (Quadratic)"}
SeqMax(s) == CHOOSE x \in {s[k] : k \in DOMAIN s} : \A k \in DOMAIN s : s[k] <= x

\* One duration per size, at least three of them.
FullSeries == Len(n_values) = Len(times) /\ Len(times) >= 3

\* C7: with a timing series of length 0, 1 or 2, detect_complexity returns
\* (None, None), whatever n_values holds, and raises nothing.
C7_FewSamplesInsufficient ==
    (dpc = "done" /\ Len(times) <= 2) =>
        verdict.fit = "None" /\ verdict.score.kind = "None"

\* C7 witness: two durations for three sizes came back as (None, None).
C7_Witness ==
    /\ dpc = "done"
    /\ Len(times) = 2
    /\ Len(n_values) = 3
    /\ verdict = NoneNone

\* C8: the result of detect_complexity is (one of the five model names, a
\* numeric score) or (None, None), and (None, None) only with fewer than 3
\* durations.
C8_ResultShape ==
    dpc = "done" =>
        \/ verdict.fit \in FiveModels /\ verdict.score.kind = "sqrt"
        \/ /\ verdict.fit = "None" /\ verdict.score.kind = "None"
           /\ Len(times) < 3

\* Durations that are one positive constant up to noise of at most a tenth
\* of the smallest (the noise of the repository's test for O(1)).
NoiseTenth == 10
NearlyConstant(ts) ==
    /\ \A k \in DOMAIN ts : ts[k] > 0
    /\ NoiseTenth * (SeqMax(ts) - SeqMin(ts)) <= SeqMin(ts)

\* C9: a series of at least 3 positive sizes whose durations are one
\* positive constant, exactly or up to negligible noise, is classified
\* O(1) (Constant).
C9_NearlyConstantIsConstant ==
    (/\ dpc = "done"
     /\ FullSeries
     /\ \A k \in DOMAIN n_values : n_values[k] >= 1
     /\ NearlyConstant(times)) =>
        verdict.fit = "O(1) (Constant)"

\* The noise-free case of C9: durations that are all exactly the same
\* positive constant are classified O(1) (Constant) with score 0, every
\* model whose curve varies over the sizes being excluded by line 130.
ExactConstantIsConstant ==
    (/\ dpc = "done"
     /\ FullSeries
     /\ \A k \in DOMAIN times : times[k] = times[1] /\ times[k] > 0) =>
        /\ verdict.fit = "O(1) (Constant)"
        /\ verdict.score.kind = "sqrt" /\ IsZero(verdict.score)
        /\ \A m \in 1..5 :
              LET theoretical == Models(n_values)[m].theoretical
              IN  Cardinality({theoretical[k] : k \in DOMAIN theoretical}) > 1 =>
                      ~_compute_residuals(Normalize(times), theoretical).applicable

WithinFivePercent(a, b) ==
    /\ a.kind = "sqrt" /\ b.kind = "sqrt"
    /\ ~SqrtLessScaled(a, RelEpsDen, RelEpsDen + RelEpsNum, b)
    /\ ~SqrtLessScaled(b, RelEpsDen, RelEpsDen + RelEpsNum, a)

\* C14: the model chosen by _score_models is never a more complex model
\* (higher priority rank) whose RMSE is within 5% of the RMSE of an
\* applicable simpler model.  Stated for one duration per size, sizes >= 1.
C14_SimplerWinsWithinFivePercent ==
    (/\ dpc = "done"
     /\ FullSeries
     /\ \A k \in DOMAIN n_values : n_values[k] >= 1) =>
        LET st == _score_models(Normalize(times), Models(n_values))
        IN  st.best_fit # "None" =>
                \A name \in FiveModels :
                    (/\ st.scores[name].kind = "sqrt"
                     /\ model_priority[name] < model_priority[st.best_fit]) =>
                        ~WithinFivePercent(st.scores[st.best_fit], st.scores[name])

\* C19: for at least 3 durations, all >= 0, some or all of them possibly 0,
\* detect_complexity returns without a division error: a smallest duration
\* of 0 is replaced by 1e-9 s before the division of line 230, and the
\* logarithms and divisions of the disambiguation see only durations > 0
\* and sizes > 1.
C19_ZeroDurationsAreFloored ==
    (/\ dpc = "done"
     /\ Len(times) >= 3
     /\ \A k \in DOMAIN times : times[k] >= 0) =>
        /\ verdict.fit \in FiveModels \cup {"None"}
        /\ MinTime(times) > 0
        /\ SeqMin(times) = 0 => MinTime(times) = EpsTime
        /\ LET pairs == UsablePairs(n_values, times, ZipLen(n_values, times))
           IN  \A k \in DOMAIN pairs :
                   times[pairs[k]] > 0 /\ n_values[pairs[k]] > 1

\* C19 witness: three durations of 0 ticks for three sizes came back as
\* O(1) (Constant).
C19_Witness ==
    /\ dpc = "done"
    /\ times = <<0, 0, 0>>
    /\ n_values = <<1, 2, 3>>
    /\ verdict.fit = "O(1) (Constant)"

\* Lines 116-122: the denominator n * sum_xx - sum_x * sum_x of the regression.
RegressionDenom(theoretical) ==
    LET sum_x == FSum(theoretical)
        sum_xx == FSum([k \in DOMAIN theoretical |->
                            FMul(theoretical[k], theoretical[k])])
    IN  FSub(FMul(Float(Len(theoretical)), sum_xx), FMul(sum_x, sum_x))

\* Line 126: the slope a of the regression, for a denominator other than 0.
RegressionSlope(normalized_times, theoretical) ==
    LET sum_x == FSum(theoretical)
        sum_y == FSum(normalized_times)
        sum_xy == FSum([k \in 1..ZipLen(theoretical, normalized_times) |->
                            FMul(theoretical[k], normalized_times[k])])
    IN  FDiv(FSub(FMul(Float(Len(theoretical)), sum_xy), FMul(sum_x, sum_y)),
             RegressionDenom(theoretical))

\* A model that reaches the regression of lines 115-133 (its curve does not
\* consist of one value) with a denominator within 1e-12 of zero.
DegenerateRegression(theoretical) ==
    /\ Cardinality({theoretical[k] : k \in DOMAIN theoretical}) # 1
    /\ AbsBelowTenToMinus(RegressionDenom(theoretical), TenTo12)

\* A model that reaches the regression with a slope that is not above 1e-12.
SlopeNotPositive(normalized_times, theoretical) ==
    /\ Cardinality({theoretical[k] : k \in DOMAIN theoretical}) # 1
    /\ ~AbsBelowTenToMinus(RegressionDenom(theoretical), TenTo12)
    /\ AtMostTenToMinus12(RegressionSlope(normalized_times, theoretical))

\* C21: a model whose regression is degenerate (denominator within 1e-12 of
\* zero) or whose fitted slope is not above 1e-12 has no entry in scores and
\* is not the verdict, neither as the initial selection nor as the answer of
\* the disambiguation; the call returns, it raises nothing.
C21_ExcludedModelsNeverWin ==
    (dpc = "done" /\ Len(times) >= 3) =>
        /\ verdict.fit \in FiveModels \cup {"None"}
        /\ \A m \in 1..5 :
              LET model == Models(n_values)[m]
              IN  (\/ DegenerateRegression(model.theoretical)
                   \/ SlopeNotPositive(Normalize(times), model.theoretical)) =>
                      /\ initial.scores[model.name] = NoneScore
                      /\ initial.best_fit # model.name
                      /\ tie_break.fit # model.name
                      /\ verdict.fit # model.name

\* C21 witness: durations 2, 1, 1, 0 ticks for sizes 0, 1, 2, 3; every curve
\* that grows has a negative slope, and the call returned O(1) (Constant).
C21_Witness ==
    /\ dpc = "done"
    /\ n_values = <<0, 1, 2, 3>>
    /\ times = <<2, 1, 1, 0>>
    /\ \A m \in 2..5 :
          SlopeNotPositive(Normalize(times), Models(n_values)[m].theoretical)
    /\ initial.scores["O(1) (Constant)"].kind = "sqrt"
    /\ verdict.fit = "O(1) (Constant)"

\* The other case of C21: without sizes every regression is degenerate, no
\* model has a score, and the call returned no model.
AllDegenerateWithoutSizes ==
    /\ dpc = "done"
    /\ n_values = <<>>
    /\ Len(times) >= MinSamples
    /\ \A m \in 1..5 : DegenerateRegression(Models(n_values)[m].theoretical)
    /\ initial.scores = NoScores
    /\ verdict.fit = "None"

\* C22: the disambiguation changes the verdict only when the initial
\* selection is Linear or Linearithmic, both have an RMSE, and the two RMSEs
\* differ by at most 5% of the smaller; otherwise the returned model and
\* score are the initial selection.  It is not run for another initial
\* selection, and it answers Linear, Linearithmic or nothing.
C22_TieBreakOnlyBetweenLinearAndLinearithmic ==
    (dpc = "done" /\ Len(times) >= 3) =>
        LET linear_rmse == initial.scores["O(n) (Linear)"]
            nlogn_rmse == initial.scores["O(n log n) (Linearithmic)"]
        IN  /\ (verdict.fit # initial.best_fit \/ verdict.score # initial.best_score) =>
                    /\ initial.best_fit \in LinearOrLinearithmic
                    /\ linear_rmse.kind = "sqrt" /\ nlogn_rmse.kind = "sqrt"
                    /\ WithinFivePercent(linear_rmse, nlogn_rmse)
            /\ initial.best_fit \notin LinearOrLinearithmic => tie_break = NotCalled
            /\ tie_break.fit \in LinearOrLinearithmic \cup {"None", "unbound"}
            /\ verdict.fit # initial.best_fit => verdict.fit \in LinearOrLinearithmic

\* C22 witness: sizes 0, 1, 2, 3 with durations 1, 2, 1, 2 ticks; the initial
\* selection is Linear, the two RMSEs are within 5%, and the call returned
\* Linearithmic.
C22_Witness ==
    /\ dpc = "done"
    /\ n_values = <<0, 1, 2, 3>>
    /\ times = <<1, 2, 1, 2>>
    /\ initial.best_fit = "O(n) (Linear)"
    /\ WithinFivePercent(initial.scores["O(n) (Linear)"],
                         initial.scores["O(n log n) (Linearithmic)"])
    /\ verdict.fit = "O(n log n) (Linearithmic)"

\* The disambiguation is triggered: the initial selection is Linear or
\* Linearithmic and the two RMSEs are within 5% of the smaller.
Triggered ==
    /\ initial.best_fit \in LinearOrLinearithmic
    /\ WithinFivePercent(initial.scores["O(n) (Linear)"],
                         initial.scores["O(n log n) (Linearithmic)"])

\* The positions of the samples with size > 1 and duration > 0.
Usable == {k \in 1..ZipLen(n_values, times) : n_values[k] > 1 /\ times[k] > 0}

AbortWithOneUsablePair ==
    /\ dpc = "done"
    /\ n_values = <<0, 1, 2, 3>>
    /\ times = <<0, 1, 0, 1>>
    /\ Triggered
    /\ Usable = {4}
    /\ tie_break = NoTieBreak
    /\ verdict.fit = "O(n) (Linear)"

\* Lines 184-188 for the model of one name: its RMSE over the series of the
\* call.
RmseOf(name) ==
    LET model == Models(n_values)[model_priority[name] + 1]
    IN  Rmse(_compute_residuals(Normalize(times), model.theoretical).residuals)

\* C24: when detect_complexity returns a model name, the score it returns
\* is the RMSE computed for that model in this call, the entry of scores
\* under that name: after the disambiguation has replaced the initial
\* selection, it is the RMSE of the replacement, not of the initial one.
C24_ScoreBelongsToReturnedModel ==
    (dpc = "done" /\ verdict.fit \in FiveModels) =>
        /\ verdict.score.kind = "sqrt"
        /\ verdict.score = initial.scores[verdict.fit]
        /\ verdict.score = RmseOf(verdict.fit)
        /\ initial.best_score = initial.scores[initial.best_fit]

\* C24 witness: sizes 1, 1, 2, 3 with durations 0, 1, 1, 2 ticks; Linear is
\* replaced by Linearithmic, whose RMSE is another one, and that RMSE is
\* returned.
C24_Witness ==
    /\ dpc = "done"
    /\ n_values = <<1, 1, 2, 3>>
    /\ times = <<0, 1, 1, 2>>
    /\ initial.best_fit = "O(n) (Linear)"
    /\ verdict.fit = "O(n log n) (Linearithmic)"
    /\ verdict.score # initial.best_score
    /\ verdict.score = initial.scores["O(n log n) (Linearithmic)"]

\* The loop of lines 182-207 after the first k models, run again on the
\* scores it left: a model without a score was skipped.
RECURSIVE AfterModels(_)
AfterModels(k) ==
    IF k = 0 THEN ScoreStart
    ELSE IF initial.scores[ModelNames[k]].kind = "None"
    THEN AfterModels(k - 1)
    ELSE ScoreStep(AfterModels(k - 1), ModelNames[k], initial.scores[ModelNames[k]])

\* rmse is below best_score by more than 5% of best_score, or by more than
\* 1e-9 when best_score is 0 (which no RMSE is).
BelowByMoreThanFivePercent(rmse, best_score) ==
    /\ best_score.kind = "sqrt"
    /\ ~IsZero(best_score)
    /\ SqrtLessScaled(rmse, RelEpsDen - RelEpsNum, RelEpsDen, best_score)

\* C25: _score_models examines Constant, Logarithmic, Linear, Linearithmic,
\* Quadratic in this order, starting from no best and best_score = inf.  The
\* first model with a score becomes the best; a later model replaces the
\* best only when its RMSE is below best_score by more than 5% of it; and
\* the selected model is near-minimal: 0.95 * RMSE(selected) <= RMSE(m) for
\* every model m with a score.
C25_SelectionIsNearMinimal ==
    (dpc = "done" /\ Len(times) >= 3) =>
        /\ AfterModels(0).best_fit = "None" /\ AfterModels(0).best_score = Infinity
        /\ AfterModels(5).best_fit = initial.best_fit
        /\ AfterModels(5).best_score = initial.best_score
        /\ \A k \in 1..5 :
              LET before == AfterModels(k - 1)
                  after == AfterModels(k)
                  rmse == initial.scores[ModelNames[k]]
              IN  /\ model_priority[ModelNames[k]] = k - 1
                  /\ (before.best_fit = "None" /\ rmse.kind = "sqrt") =>
                         after.best_fit = ModelNames[k] /\ after.best_score = rmse
                  /\ (before.best_fit # "None" /\ after.best_fit # before.best_fit) =>
                         /\ after.best_fit = ModelNames[k]
                         /\ after.best_score = rmse
                         /\ BelowByMoreThanFivePercent(rmse, before.best_score)
                  /\ (before.best_fit # "None" /\ after.best_fit = before.best_fit) =>
                         after.best_score = before.best_score
        /\ \A name \in FiveModels :
              initial.scores[name].kind = "sqrt" =>
                  /\ initial.best_fit \in FiveModels
                  /\ ~SqrtLessScaled(initial.scores[name], RelEpsDen - RelEpsNum,
                                     RelEpsDen, initial.best_score)

\* C25 witness: all five models have a score, the best was replaced twice
\* (Constant, then Logarithmic, then Linear), and Quadratic, examined last,
\* has a smaller RMSE than the selected Linear but not by more than 5%.
C25_Witness ==
    /\ dpc = "done"
    /\ \A name \in FiveModels : initial.scores[name].kind = "sqrt"
    /\ AfterModels(1).best_fit = "O(1) (Constant)"
    /\ AfterModels(2).best_fit = "O(log n) (Logarithmic)"
    /\ AfterModels(3).best_fit = "O(n) (Linear)"
    /\ initial.best_fit = "O(n) (Linear)"
    /\ SqrtLessScaled(initial.scores["O(n^2) (Quadratic)"], 1, 1, initial.best_score)

(***************************************************************************)
(* Properties of repeated calls (checked under RunsSpec).                  *)
(***************************************************************************)
SameAsRemembered ==
    n_values = remembered.n_values /\ times = remembered.times

Printed(kind) == \E k \in DOMAIN stdout : stdout[k].kind = kind
IsSample(t) == t.kind = "float"
SomeMeasurementAbsent == \E k \in DOMAIN measured : ~IsSample(measured[k].t)
VerdictPrinted == Printed("complexity") \/ Printed("rmse") \/ Printed("insufficient")

\* C15: main measures the sizes in series order and stops at the first size
\* without a sample: only the last measurement can be absent, times holds
\* exactly the samples of the sizes before it, and then detect_complexity
\* is not called and no verdict is printed; detect_complexity is called
\* only with one sample per size, times[i] being the sample of n_values[i].
C15_AbortOnFirstAbsentSample ==
    /\ \A k \in DOMAIN measured : measured[k].n = CliSizes[k]
    /\ \A k \in DOMAIN measured : k < Len(measured) => IsSample(measured[k].t)
    /\ Len(cli_times) = Cardinality({k \in DOMAIN measured : IsSample(measured[k].t)})
    /\ \A k \in DOMAIN cli_times : cli_times[k] = measured[k].t
    /\ SomeMeasurementAbsent => detect_calls = <<>> /\ ~VerdictPrinted
    /\ \A c \in DOMAIN detect_calls :
          /\ Len(detect_calls) = 1
          /\ detect_calls[c].n_values = CliSizes
          /\ Len(detect_calls[c].times) = Len(CliSizes)
          /\ \A k \in DOMAIN CliSizes :
                /\ measured[k].n = detect_calls[c].n_values[k]
                /\ measured[k].t = detect_calls[c].times[k]

\* C15 witness: the third size gave no sample after two that did, and the
\* process ended without calling detect_complexity.
C15_Witness ==
    /\ cli_pc = "exited"
    /\ Len(measured) = 3
    /\ measured[3].t = ReturnNone
    /\ Len(cli_times) = 2
    /\ detect_calls = <<>>

\* C16: when a measurement returns no sample, main prints the failure
\* message and the process ends with a non-zero exit status.
C16_FailureExitsNonZero ==
    (cli_pc = "exited" /\ \E k \in DOMAIN measured : measured[k].t = ReturnNone) =>
        Printed("failed") /\ exit_status # 0

\* The part of C17 that holds: too few arguments print the usage text and
\* exit 1 without importing; ImportError and AttributeError print the error
\* line and exit 1; in both cases nothing is measured and no row is printed.
UsageAndHandledImportErrors ==
    cli_pc = "exited" =>
        /\ argc < 3 =>
              stdout = <<Line("usage")>> /\ exit_status = 1 /\ imports = 0
                  /\ measured = <<>>
        /\ (argc >= 3 /\ import_outcome \in {"ImportError", "AttributeError"}) =>
              stdout = <<Line("import_error")>> /\ exit_status = 1
                  /\ measured = <<>>

\* C17: with fewer than two positional arguments main prints the usage text
\* and exits non-zero without importing; when the import or the lookup
\* fails it prints the error naming module and function and exits non-zero;
\* in both cases the function is never invoked and no row is printed.
C17_UsageAndImportErrors ==
    cli_pc = "exited" =>
        /\ argc < 3 =>
              /\ Printed("usage") /\ exit_status # 0 /\ imports = 0
              /\ measured = <<>> /\ ~Printed("row")
        /\ (argc >= 3 /\ import_outcome # "ok") =>
              /\ Printed("import_error") /\ exit_status # 0
              /\ measured = <<>> /\ ~Printed("row")

\* C18: a run that ends with fewer than 3 sizes measured prints the
\* insufficient-data message instead of a model name, and the message is
\* printed in no other situation.
C18_InsufficientDataBelowThree ==
    (cli_pc = "exited" /\ measured # <<>>) =>
        /\ Len(cli_times) < 3 => Printed("insufficient") /\ ~Printed("complexity")
        /\ Printed("insufficient") => Len(cli_times) < 3

(***************************************************************************)
(* Properties of the coordinator (checked under CoordSpec).                *)
(***************************************************************************)
FileOps == {k \in DOMAIN fs_ops : fs_ops[k].op \in {"write", "unlink"}}

\* C20: a coordinator run with --dryrun spawns no worker process, runs no
\* make or git command, and creates, overwrites or deletes no file, from
\* construction to the end of run().
C20_DryRunChangesNothing ==
    dryrun =>
        /\ processes = <<>>
        /\ commands = <<>>
        /\ FileOps = {}

\* The part of C20 that holds: a dry run spawns no worker and runs no
\* command.
DryRunSpawnsAndRunsNothing ==
    dryrun => processes = <<>> /\ commands = <<>>

Terminated(process) == process.state \in {"exited_0", "exited_nonzero", "killed"}

\* C29: in a run without --dryrun, cleanup_locks starts only after every
\* spawned worker has terminated (it exited, or it was killed after the
\* timeout), all workers having been spawned and waited for before; and
\* once cleanup_locks is done, no *.lock file is left in docs/.locks.
C29_CleanupAfterWorkersTerminated ==
    /\ (~dryrun /\ co_pc \in {"cleanup", "show_progress", "finalize"}) =>
          /\ agent_i = num_agents
          /\ waited = Len(processes)
          /\ \A k \in DOMAIN processes : Terminated(processes[k])
    /\ co_pc \in {"show_progress", "finalize"} => locks = {}

\* The part of C29 that holds: the steps come in the order spawn, wait,
\* clean up, finalize; the second loop has handled every spawned worker
\* before cleanup_locks starts, and cleanup_locks leaves no lock file.
CleanupAfterEveryWorkerWasHandled ==
    /\ (~dryrun /\ co_pc \in {"cleanup", "show_progress", "finalize"}) =>
          /\ agent_i = num_agents
          /\ waited = Len(processes)
    /\ co_pc \in {"show_progress", "finalize"} => locks = {}
    /\ commands # <<>> => co_pc = "exited"

\* cleanup_locks is about to start while a worker, whose communicate
\* raised at line 134, has neither exited nor been killed.
CleanupWithLiveWorker ==
    /\ ~dryrun
    /\ co_pc = "cleanup"
    /\ \E k \in DOMAIN processes : processes[k].state = "running"

(***************************************************************************)
(* Properties of the workers (checked under WorkerSpec).                   *)
(***************************************************************************)
\* The worker is between lines 68 and 113 of process_file with a lock that
\* acquire_lock returned.
Holds(w) == wk_pc[w] = "process"
Document(w) == md_files[wk_file[w]]

\* C26: under any interleaving of the workers no two of them hold, at the
\* same time, a lock acquire_lock returned for the same document, and
\* release_lock of one worker never removes a lock file from under another
\* worker that holds the lock of that name.
C26_LocksAreExclusive ==
    \A a \in Workers :
       /\ wk_last[a].robbed = {}
       /\ \A b \in Workers \ {a} :
             ~(Holds(a) /\ Holds(b) /\ Document(a) = Document(b))

\* Two workers are processing the same document, each with a lock.
TwoWorkersProcessOneDocument ==
    \E a \in Workers, b \in Workers :
       a # b /\ Holds(a) /\ Holds(b) /\ Document(a) = Document(b)

\* A worker's release_lock removed the lock file another worker held.
ReleaseRemovedAnothersLock ==
    \E a \in Workers : wk_last[a].robbed # {}

\* The part of C26 that holds: acquire_lock never returns a lock whose file
\* it found in place, so a worker that starts after another worker wrote
\* the lock file of a document does not process that document.
LockFoundIsRespected ==
    \A w \in Workers :
       wk_last[w].cause = "locked" =>
          /\ wk_last[w].value = "False"
          /\ wk_last[w].blocker # Absent
          /\ ~wk_last[w].unlinked

SkippedWithoutRemoving ==
    \E w \in Workers :
       /\ wk_last[w].cause = "locked"
       /\ lock_files[Stem(wk_last[w].file)] = wk_last[w].blocker

\* C28: process_file returns False without processing only when the lock
\* of that very document is held by another worker at that moment; the lock
\* of one document never makes a worker skip another document, two
\* documents of the same file name in different directories included.
C28_SkipsOnlyLockedDocument ==
    \A w \in Workers :
       wk_last[w].cause \in {"locked", "write_failed"} =>
          /\ wk_last[w].cause = "locked"
          /\ wk_last[w].blocker.agent # w
          /\ wk_last[w].blocker.file = wk_last[w].file

\* A worker skipped a document because another worker held the lock of a
\* different document with the same file name.
SkippedForAnotherDocument ==
    \E w \in Workers :
       /\ wk_last[w].cause = "locked"
       /\ wk_last[w].blocker.file # wk_last[w].file
       /\ Stem(wk_last[w].blocker.file) = Stem(wk_last[w].file)

\* The part of C28 that holds: a skip at a lock file is caused by a lock
\* another worker wrote for a document of the same file name.
SkipsOnlyForSameFileName ==
    \A w \in Workers :
       wk_last[w].cause = "locked" =>
          /\ wk_last[w].blocker.agent \in Workers \ {w}
          /\ Stem(wk_last[w].blocker.file) = Stem(wk_last[w].file)

(***************************************************************************)
(* Properties of the introspection walk (checked under IntrospectSpec).    *)
(***************************************************************************)
IsItem(output) == output.kind = "item"
ItemsShown == SelectSeq(shown, IsItem)
ListedNames == {items[k] : k \in 1..Len(items)}
LatestOutput == shown[Len(shown)]

\* The items printed so far are the first items of the list, in its order,
\* each once and each closed by the name of its successor, the last one by
\* "This is the last item."; --next of the last item prints the completion
\* message and exits 0 after every item was printed; --next of a name that
\* is not in the list prints no item and exits 1.
WalkInOrder ==
    /\ Len(ItemsShown) <= Len(items)
    /\ \A k \in 1..Len(ItemsShown) :
          /\ ItemsShown[k].name = items[k]
          /\ k < Len(items) =>
                /\ ItemsShown[k].closing = "Next:"
                /\ ItemsShown[k].next_name = items[k + 1]
          /\ k = Len(items) =>
                /\ ItemsShown[k].closing = "This is the last item."
                /\ ItemsShown[k].next_name = NoName
    /\ it_arg = "--next" =>
          /\ it_target \notin ListedNames =>
                LatestOutput.kind = "error" /\ it_exit = 1
          /\ it_target = items[Len(items)] =>
                /\ LatestOutput.kind = "complete"
                /\ it_exit = 0
                /\ Len(ItemsShown) = Len(items)
          /\ (it_target \in ListedNames /\ it_target # items[Len(items)]) =>
                /\ IsItem(LatestOutput)
                /\ it_exit = 0
    /\ \A k \in 1..(Len(shown) - 1) : shown[k].kind \in {"count", "item"}

\* The walk is over: the latest run printed the completion message or the
\* error.
WalkOver ==
    /\ shown # <<>>
    /\ LatestOutput.kind \in {"complete", "error"}

\* C30: on a non-empty list of distinct names the walk of --start followed
\* by --next of the name just printed shows every item once, in list order,
\* each with its successor's name and the last with "This is the last
\* item.", and comes to an end: --next of the last item exits 0, and --next
\* of a name not in the list exits 1 and shows no item.
C30_WalkVisitsEveryItemOnce == [](WalkInOrder) /\ <>(WalkOver)

\* A walk over three or more items ran to completion: every item was
\* printed and --next of the last one exited 0.
C30_Witness ==
    /\ Len(items) >= 3
    /\ shown # <<>>
    /\ LatestOutput.kind = "complete"
    /\ it_exit = 0
    /\ Len(ItemsShown) = Len(items)

\* A walk was stopped in the middle by a name that is not in the list.
WalkStoppedByUnknownName ==
    /\ shown # <<>>
    /\ LatestOutput.kind = "error"
    /\ it_exit = 1
    /\ 0 < Len(ItemsShown) /\ Len(ItemsShown) < Len(items)

====
